---- MODULE Spec2Model ----
(***************************************************************************)
(* ShootingStar: starred e-mails are turned into tracker tasks.            *)
(*                                                                         *)
(* Two operating-system processes share one SQLite store:                  *)
(*   - the background worker (worker/index.ts), whose timers start         *)
(*     processStarredEmails() invocations;                                 *)
(*   - the web process, whose routes run ProcessorService (run_once,       *)
(*     manual submit, skip) and the start/stop/trigger controls.           *)
(* Every `await` of an async function is a scheduling point: one action of *)
(* this module is the synchronous block between two awaits, together with  *)
(* the outcome of the external call it was waiting for.                    *)
(***************************************************************************)
EXTENDS Integers, Sequences, FiniteSets, TLC

\* ------------------------------------------------------------------ bounds
\* Number of distinct e-mails of the mailbox.
NumItems == 2
\* Total number of cycle invocations (worker and run_once) of one behaviour.
MaxCycles == 2
\* Total number of manual operations (submit, skip) of one behaviour.
MaxManual == 2

\* Longest sequence of label ids handed to normalizeLabels on its own.
MaxLabels == 3

\* Number of createTask calls made on one TodoistService with the same ids.
MaxCalls == 2

\* The limit of one fetch where the mailbox is to hold more starred
\* e-mails than a fetch returns: maxResults scaled down to the model's
\* mailbox.
BatchLimit == 1
\* Number of error_log rows written where cycles go on for ever.
MaxErrors == 1

\* gmail.getStarredEmails(maxResults = 50)
MaxResults == 50

Items == 1..NumItems
\* email_id of an error_log row that names no e-mail (NULL)
NoItem == 0

\* Async invocations of the worker's processStarredEmails that may be in
\* flight together, and the web process's run_once invocation.
Workers == {"w1", "w2"}
Service == "svc"
Slots == Workers \cup {Service}

\* ---------------------------------------------------------- label taxonomy
DurationLabelIds == {"2170911418", "2170911443", "2170911462", "2170911483"}

ContextLabelIds ==
    {"2170910796", "2171144986", "2171144969", "2170910787", "2170867398",
     "2175329080", "2174409639", "2170910997", "2174556945", "2170911275",
     "2170867369", "2170911059", "2171145727", "2171145711", "2175489111",
     "2179977775", "2168964591"}

ThemeLabelIds ==
    {"2170793536", "2170793538", "2170793551", "2170793566", "2170793532"}

HorizonLabelIds == {"2174349262", "2174349277", "2174556383"}

PerformanceLabelIds == {"2174846814", "2174846815"}

\* Own keys of the LABEL_REGISTRY object.
LABEL_REGISTRY ==
    DurationLabelIds \cup ContextLabelIds \cup ThemeLabelIds
        \cup HorizonLabelIds \cup PerformanceLabelIds

\* Keys every JavaScript object inherits from Object.prototype: the `in`
\* operator finds them in LABEL_REGISTRY although they are no labels.
ObjectPrototypeKeys ==
    {"constructor", "toString", "valueOf", "hasOwnProperty", "__proto__"}

\* labelId in LABEL_REGISTRY
isApprovedLabel(labelId) ==
    labelId \in LABEL_REGISTRY \cup ObjectPrototypeKeys

\* getLabelInfo(id)?.category ("none" stands for undefined)
LabelCategoryOf(id) ==
    IF id \in DurationLabelIds THEN "duration"
    ELSE IF id \in ContextLabelIds THEN "context"
    ELSE IF id \in ThemeLabelIds THEN "theme"
    ELSE IF id \in HorizonLabelIds THEN "horizon"
    ELSE IF id \in PerformanceLabelIds THEN "performance"
    ELSE "none"

SeqRange(s) == {s[k] : k \in 1..Len(s)}

\* A normalisation that keeps duplicates.
Dedup_Keep(s) == s

\* A deduplication that keeps the last occurrence of an id, not the first.
RECURSIVE Dedup_KeepLast(_)
Dedup_KeepLast(s) ==
    IF s = <<>> THEN <<>>
    ELSE LET rest == Dedup_KeepLast(Tail(s))
         IN  IF Head(s) \in SeqRange(rest) THEN rest ELSE <<Head(s)>> \o rest

\* [...new Set(normalized)]: first occurrences, in order
RECURSIVE Dedup(_)
Dedup(s) ==
    IF s = <<>> THEN <<>>
    ELSE LET init == Dedup(SubSeq(s, 1, Len(s) - 1))
             last == s[Len(s)]
         IN  IF last \in SeqRange(init) THEN init ELSE Append(init, last)

IsDuration(id) == LabelCategoryOf(id) = "duration"
IsContext(id) == LabelCategoryOf(id) = "context"

\* A normalizeLabels that adds the default context without looking for a
\* context among the labels.
normalizeLabels_AlwaysComputer(labelIds) ==
    LET approved == Dedup(SelectSeq(labelIds, isApprovedLabel))
        durationLabels == SelectSeq(approved, IsDuration)
        KeepFirstDuration(id) == ~IsDuration(id) \/ id = durationLabels[1]
        withDuration ==
            IF Len(durationLabels) = 0 THEN Append(approved, "2170911443")
            ELSE IF Len(durationLabels) > 1
                 THEN SelectSeq(approved, KeepFirstDuration)
                 ELSE approved
    IN  Append(withDuration, "2170910796")

\* normalizeLabels(labelIds)
normalizeLabels(labelIds) ==
    LET approved == Dedup(SelectSeq(labelIds, isApprovedLabel))
        durationLabels == SelectSeq(approved, IsDuration)
        KeepFirstDuration(id) == ~IsDuration(id) \/ id = durationLabels[1]
        withDuration ==
            IF Len(durationLabels) = 0 THEN Append(approved, "2170911443")
            ELSE IF Len(durationLabels) > 1
                 THEN SelectSeq(approved, KeepFirstDuration)
                 ELSE approved
        contextLabels == SelectSeq(withDuration, IsContext)
    IN  IF Len(contextLabels) = 0
        THEN Append(withDuration, "2170910796")
        ELSE withDuration

\* ------------------------------------------------------------------ state
VARIABLES
    env,          \* per process: TRUE when ANTHROPIC_API_KEY is set
    running,      \* automation_state 'running' = 'true'
    runningRow,   \* automation_state has a 'running' row
    trigger,      \* automation_state has a 'trigger_run' row
    lastRun,      \* automation_state 'last_run' (0: no row), a logical time
    cycles,       \* cycle invocations so far (the logical clock)
    manuals,      \* manual operations so far
    startupDone,  \* the worker's startup setTimeout has fired
    processed,    \* processed_emails rows, id = position
    pending,      \* pending_reviews rows, id = position
    errors,       \* error_log, a bag: <<error_type, email_id>> -> count
    tasks,        \* the tracker: item -> the tasks created for it, in order
    starred,      \* mailbox: items carrying STARRED
    marked,       \* mailbox: items carrying the 'Processed' label
    cyc,          \* per invocation slot: the async function's frame
    man,          \* the processManualTask frame of the web process
    ev,           \* what the last step did with an e-mail (bookkeeping)
    call          \* a call of normalizeLabels: its argument and its result

vars == <<env, running, runningRow, trigger, lastRun, cycles, manuals,
          startupDone,
          processed, pending, errors, tasks, starred, marked, cyc, man,
          ev, call>>

WorkerProc == "worker"
WebProc == "web"
Procs == {WorkerProc, WebProc}

ProcOf(p) == IF p = Service THEN WebProc ELSE WorkerProc

ErrorTypes ==
    {"ENV_ERROR", "PROCESSING_ERROR", "CYCLE_ERROR", "MANUAL_PROCESSING_ERROR"}

NoTask == <<NoItem, 0>>

\* What a step did with an e-mail: bookkeeping of the model, not state of
\* the program.  ev names the step just taken; a run_once frame also keeps
\* the outcome of every e-mail of its invocation (hist).
Outcomes ==
    {"none", "start", "triggered", "fetched", "authRequired", "fetchFailed",
     "initialized", "queued", "skipped", "fatal", "fallback", "extracted",
     "created", "createFailed", "labelled", "markFailed", "conflict",
     "recorded"}

Ev(slot, item, outcome) == [slot |-> slot, item |-> item, outcome |-> outcome]
NoEv == Ev("none", NoItem, "none")
Manual == "manual"

\* ------------------------------------------------------------ the ledger
\* SELECT id FROM processed_emails WHERE gmail_id = ?
isEmailProcessed(rows, gmailId) ==
    \E k \in 1..Len(rows) : rows[k].gmail_id = gmailId

\* A cycle that does not consult pending_reviews before it handles an
\* e-mail.
isPendingReview_Never(rows, gmailId) == FALSE

\* SELECT id FROM pending_reviews WHERE gmail_id = ? AND status = "pending"
\* (the double-quoted "pending" read as the string literal it is meant as)
isPendingReview(rows, gmailId) ==
    \E k \in 1..Len(rows) :
        rows[k].gmail_id = gmailId /\ rows[k].status = "pending"

\* processed_emails without the UNIQUE constraint on gmail_id.
addProcessedEmail_NoUnique(rows, data) ==
    [ok |-> TRUE, rows |-> Append(rows, data)]

\* INSERT INTO processed_emails: gmail_id is UNIQUE, a second row for the
\* same gmail_id makes the statement throw and changes nothing.
addProcessedEmail(rows, data) ==
    IF isEmailProcessed(rows, data.gmail_id)
    THEN [ok |-> FALSE, rows |-> rows]
    ELSE [ok |-> TRUE, rows |-> Append(rows, data)]

\* A plain INSERT into a pending_reviews table without the UNIQUE
\* constraint.
addPendingReview_Always(rows, gmailId) ==
    Append(rows, [gmail_id |-> gmailId, status |-> "pending"])

\* INSERT OR IGNORE INTO pending_reviews: status defaults to 'pending'.
addPendingReview(rows, gmailId) ==
    IF \E k \in 1..Len(rows) : rows[k].gmail_id = gmailId
    THEN rows
    ELSE Append(rows, [gmail_id |-> gmailId, status |-> "pending"])

\* SELECT * FROM pending_reviews WHERE id = ?  (<<>>: null)
getPendingReviewById(rows, id) ==
    IF id \in 1..Len(rows) THEN <<rows[id]>> ELSE <<>>

\* UPDATE pending_reviews SET status = ? WHERE id = ?
updatePendingReviewStatus(rows, id, status) ==
    IF id \in 1..Len(rows) THEN [rows EXCEPT ![id].status = status] ELSE rows

\* A catch block that swallows the error without a row in error_log.
addErrorLog_Dropped(log, errorType, emailId) == log

\* INSERT INTO error_log
addErrorLog(log, errorType, emailId) ==
    [log EXCEPT ![<<errorType, emailId>>] = @ + 1]

\* ------------------------------------------------------------ the mailbox
RECURSIVE SortedSeq(_)
SortedSeq(S) ==
    IF S = {} THEN <<>>
    ELSE LET m == CHOOSE x \in S : \A y \in S : x <= y
         IN  <<m>> \o SortedSeq(S \ {m})

\* gmail.users.messages.list({q: 'is:starred', maxResults}): the starred
\* messages in the mailbox's order, at most maxResults of them.
getStarredEmails(maxResults) ==
    LET all == SortedSeq(starred)
    IN  SubSeq(all, 1, IF Len(all) < maxResults THEN Len(all) ELSE maxResults)

\* ------------------------------------------------------------ extraction
\* What the CLI call of one extraction does.
CliBehaviours ==
    {"unauthenticated", "timeout", "execError", "cliError", "noJson",
     "missingFields", "ok"}

\* The labels array of a well-formed CLI answer.
RawLabelInputs == {<<"2171144969">>}

\* An extraction that does not take a killed child process for a reason to
\* fall back.
extractTaskFromEmail_TimeoutFatal(cli, rawLabels) ==
    IF cli = "timeout"
    THEN [success |-> FALSE, fallbackRequired |-> FALSE, labels |-> <<>>]
    ELSE IF cli # "ok"
    THEN [success |-> FALSE, fallbackRequired |-> TRUE, labels |-> <<>>]
    ELSE LET validLabels == SelectSeq(rawLabels, isApprovedLabel)
         IN  [success |-> TRUE, fallbackRequired |-> FALSE,
              labels |-> IF Len(validLabels) = 0
                         THEN <<"2170911443", "2170910796">>
                         ELSE validLabels]

\* extractTaskFromEmail after validateEnvironment has passed.
extractTaskFromEmail(cli, rawLabels) ==
    IF cli # "ok"
    THEN [success |-> FALSE, fallbackRequired |-> TRUE, labels |-> <<>>]
    ELSE LET validLabels == SelectSeq(rawLabels, isApprovedLabel)
         IN  [success |-> TRUE, fallbackRequired |-> FALSE,
              labels |-> IF Len(validLabels) = 0
                         THEN <<"2170911443", "2170910796">>
                         ELSE validLabels]

\* result.authUrl: absent until a GmailAuthError hands over the consent URL
\* that getAuthUrl() generated.
NoAuthUrl == "undefined"
AuthUrl == "authUrl"

\* --------------------------------------------------------- label names
\* The id, name and emoji of every entry of LABEL_REGISTRY; an emoji is
\* written as its code points.
LabelInfos ==
    {
     [id |-> "2170911418", name |-> "5 min", emoji |-> "U+23F1"],
     [id |-> "2170911443", name |-> "15 min", emoji |-> "U+231A"],
     [id |-> "2170911462", name |-> "30 min", emoji |-> "U+23F0"],
     [id |-> "2170911483", name |-> "1 hr", emoji |-> "U+23F3"],
     [id |-> "2170910796", name |-> "Computer", emoji |-> "U+1F4BB"],
     [id |-> "2171144986", name |-> "Calls", emoji |-> "U+1F4DE"],
     [id |-> "2171144969", name |-> "Errands", emoji |-> "U+1F3C3"],
     [id |-> "2170910787", name |-> "Mobile", emoji |-> "U+1F4F1"],
     [id |-> "2170867398", name |-> "Home", emoji |-> "U+1F3E1"],
     [id |-> "2175329080", name |-> "Amazon", emoji |-> "U+1F4E6"],
     [id |-> "2174409639", name |-> "ChatGPT", emoji |-> "U+1F916"],
     [id |-> "2170910997", name |-> "SHD", emoji |-> "U+1F3E6"],
     [id |-> "2174556945", name |-> "Workshop", emoji |-> "U+1FA9A"],
     [id |-> "2170911275", name |-> "Low energy", emoji |-> "U+1F634"],
     [id |-> "2170867369", name |-> "Fun Depot", emoji |-> "U+1F6E0"],
     [id |-> "2170911059", name |-> "FLUP", emoji |-> "U+1F4C5"],
     [id |-> "2171145727", name |-> "Accountant", emoji |-> "U+1F522"],
     [id |-> "2171145711", name |-> "Brittany", emoji |-> "U+1F470"],
     [id |-> "2175489111", name |-> "Youtube", emoji |-> "U+25B6 U+FE0F"],
     [id |-> "2179977775", name |-> "Amy", emoji |-> "U+1F405"],
     [id |-> "2168964591", name |-> "Next Action", emoji |-> "U+2705"],
     [id |-> "2170793536", name |-> "Challenge", emoji |-> "U+1F3CB U+FE0F"],
     [id |-> "2170793538", name |-> "Care", emoji |-> "U+1F9D8 U+200D U+2642 U+FE0F"],
     [id |-> "2170793551", name |-> "Wealth", emoji |-> "U+1F4B0"],
     [id |-> "2170793566", name |-> "Joy", emoji |-> "U+1F973"],
     [id |-> "2170793532", name |-> "Lead", emoji |-> "U+1F91D"],
     [id |-> "2174349262", name |-> "Vision [3-5y]", emoji |-> "U+1F680"],
     [id |-> "2174349277", name |-> "Goals [1-2y]", emoji |-> "U+1F3AF"],
     [id |-> "2174556383", name |-> "Milestones", emoji |-> "U+1F5FF"],
     [id |-> "2174846814", name |-> "Above Average", emoji |-> "U+1F4AA U+1F3FC"],
     [id |-> "2174846815", name |-> "World Class", emoji |-> "U+1F30E"]
    }

\* LABEL_REGISTRY[id] as JavaScript evaluates it (<<>>: undefined).  A key
\* the object literal does not own is looked up in Object.prototype: what
\* is found there is truthy, its name is the function's name, or
\* undefined for the prototype object itself, and it has no emoji; the
\* template literal writes undefined as "undefined".
RegistryLookup(id) ==
    IF \E l \in LabelInfos : l.id = id
    THEN <<CHOOSE l \in LabelInfos : l.id = id>>
    ELSE IF id = "constructor"
    THEN <<[id |-> "undefined", name |-> "Object", emoji |-> "undefined"]>>
    ELSE IF id = "__proto__"
    THEN <<[id |-> "undefined", name |-> "undefined", emoji |-> "undefined"]>>
    ELSE IF id \in ObjectPrototypeKeys
    THEN <<[id |-> "undefined", name |-> id, emoji |-> "undefined"]>>
    ELSE <<>>

\* new Map(): labelNameCache of a new TodoistService
EmptyCache == [id \in {} |-> ""]

\* getLabelNames: the for loop from its k-th id on.
RECURSIVE getLabelNamesFrom(_, _, _, _)
getLabelNamesFrom(labelIds, k, names, cache) ==
    IF k > Len(labelIds)
    THEN [names |-> names, cache |-> cache]
    ELSE LET id == labelIds[k]
             labelInfo == RegistryLookup(id)
         IN  IF id \in DOMAIN cache
             THEN getLabelNamesFrom(labelIds, k + 1,
                                    Append(names, cache[id]), cache)
             ELSE IF labelInfo # <<>>
             THEN LET fullName == labelInfo[1].name \o " "
                                      \o labelInfo[1].emoji
                  IN  getLabelNamesFrom(labelIds, k + 1,
                                        Append(names, fullName),
                                        (id :> fullName) @@ cache)
             ELSE getLabelNamesFrom(labelIds, k + 1, names, cache)

\* getLabelNames(labelIds) with the cache it reads and leaves behind.
getLabelNames(labelIds, cache) == getLabelNamesFrom(labelIds, 1, <<>>, cache)

\* ---------------------------------------------------- task description
\* Array.prototype.join('\n') of an array of strings
NewLine == "\n"

RECURSIVE join(_, _)
join(lines, separator) ==
    IF Len(lines) = 0 THEN ""
    ELSE IF Len(lines) = 1 THEN lines[1]
    ELSE lines[1] \o separator \o join(Tail(lines), separator)

\* A notes field read without the fallback to the empty string: the
\* template writes a missing value as "undefined".
OrEmpty_Raw(notes) == IF notes = <<>> THEN "undefined" ELSE notes[1]

\* notes || '' for a notes field that is missing (<<>>) or a string
OrEmpty(notes) == IF notes = <<>> \/ notes[1] = "" THEN "" ELSE notes[1]

\* `https://mail.google.com/mail/u/0/#inbox/${email.threadId}`
gmailLink(threadId) == "https://mail.google.com/mail/u/0/#inbox/" \o threadId

\* The pending_reviews row addPendingReview stores for a fetched e-mail,
\* as processManualTask reads it back.
PendingRowOf(email) ==
    [sender |-> email.sender, subject |-> email.subject,
     gmail_link |-> gmailLink(email.threadId)]

\* processEmail: const description = [...].join('\n')
processEmailDescription(email, notes) ==
    join(<<"From: " \o email.sender,
           "Subject: " \o email.subject,
           "",
           OrEmpty(notes),
           "",
           "Original email: " \o gmailLink(email.threadId)>>, NewLine)

\* the worker's processStarredEmails: const description = [...].join('\n')
workerDescription(email, notes) ==
    join(<<"From: " \o email.sender,
           "Subject: " \o email.subject,
           "",
           OrEmpty(notes),
           "",
           "Original email: " \o gmailLink(email.threadId)>>, NewLine)

\* processManualTask: const description = [...].join('\n')
processManualTaskDescription(pendingRow, notes) ==
    join(<<"From: " \o pendingRow.sender,
           "Subject: " \o pendingRow.subject,
           "",
           OrEmpty(notes),
           "",
           "Original email: " \o pendingRow.gmail_link>>, NewLine)

\* ------------------------------------------------------------ the frames
IdleFrame ==
    [pc |-> "idle", emails |-> <<>>, i |-> 0, fatal |-> FALSE,
     labels |-> <<>>, task |-> NoTask,
     result |-> [processed |-> 0, errors |-> 0, pendingReviews |-> 0,
                 authRequired |-> FALSE, authUrl |-> NoAuthUrl],
     hist |-> [x \in Items |-> "none"]]

IdleManual ==
    [pc |-> "idle", id |-> 0, labels |-> <<>>, task |-> NoTask,
     gmail_id |-> NoItem]

Item(c) == c.emails[c.i]

\* A for-loop without the two skip checks.
NextNew_NoSkip(emails, j, procRows, pendRows) == j

\* The for-loop's skipping: the first position from j on whose e-mail is
\* neither processed nor pending review (Len + 1: the loop is over).
RECURSIVE NextNew(_, _, _, _)
NextNew(emails, j, procRows, pendRows) ==
    IF j > Len(emails) THEN j
    ELSE IF isEmailProcessed(procRows, emails[j])
            \/ isPendingReview(pendRows, emails[j])
         THEN NextNew(emails, j + 1, procRows, pendRows)
         ELSE j

\* The store, the mailbox and the processes at start-up, but for the
\* 'running' row.
ProgramInit ==
    /\ env = [q \in Procs |-> FALSE]
    /\ running = FALSE
    /\ trigger = FALSE
    /\ lastRun = 0
    /\ cycles = 0
    /\ manuals = 0
    /\ startupDone = FALSE
    /\ processed = <<>>
    /\ pending = <<>>
    /\ errors = [k \in ErrorTypes \X (Items \cup {NoItem}) |-> 0]
    /\ tasks = [x \in Items |-> <<>>]
    /\ starred = Items
    /\ marked = {}
    /\ cyc = [p \in Slots |-> IdleFrame]
    /\ man = IdleManual
    /\ ev = NoEv

\* The same once a process has opened the database, which
\* initializeDatabase created with its 'running' row.
SystemInit == ProgramInit /\ runningRow = TRUE

\* No call of normalizeLabels on its own.
NoCall == [labelIds |-> <<>>, result |-> <<>>, done |-> FALSE]

Init == SystemInit /\ call = NoCall

\* ------------------------------------------------- the worker's cycle
\* A finished invocation: its locals are gone.
EndFrame(c, pc) ==
    [c EXCEPT !.pc = pc, !.emails = <<>>, !.i = 0, !.fatal = FALSE,
              !.labels = <<>>, !.task = NoTask]

\* A for-loop that reads the running flag before every e-mail and ends
\* the cycle when automation was stopped.
W_Loop_ChecksRunning(c, j, procRows, pendRows) ==
    LET n == NextNew(c.emails, j, procRows, pendRows)
    IN  IF n > Len(c.emails) \/ ~running
        THEN EndFrame(c, "idle")
        ELSE [c EXCEPT !.pc = "extract", !.i = n, !.fatal = env[WorkerProc],
                       !.labels = <<>>, !.task = NoTask]

\* The for-loop from position j: skip what the ledger knows, and call
\* extractTaskFromEmail for the first new e-mail; the call runs
\* validateEnvironment before its first await.
W_Loop(c, j, procRows, pendRows) ==
    LET n == NextNew(c.emails, j, procRows, pendRows)
    IN  IF n > Len(c.emails)
        THEN EndFrame(c, "idle")
        ELSE [c EXCEPT !.pc = "extract", !.i = n, !.fatal = env[WorkerProc],
                       !.labels = <<>>, !.task = NoTask]

\* The worker's catch of the per-item try: log, go on with the next e-mail.
W_ItemError(p, outcome) ==
    /\ errors' = addErrorLog(errors, "PROCESSING_ERROR", Item(cyc[p]))
    /\ cyc' = [cyc EXCEPT
                 ![p] = W_Loop(cyc[p], cyc[p].i + 1, processed, pending)]
    /\ ev' = Ev(p, Item(cyc[p]), outcome)

\* A processStarredEmails() without the check of the running flag.
W_processStarredEmails_Ungated(p) ==
    /\ lastRun' = cycles + 1
    /\ cycles' = cycles + 1
    /\ cyc' = [cyc EXCEPT ![p] = [IdleFrame EXCEPT !.pc = "fetch"]]

\* processStarredEmails() up to its first await.
W_processStarredEmails(p) ==
    /\ lastRun' = cycles + 1
    /\ cycles' = cycles + 1
    /\ cyc' = [cyc EXCEPT
                 ![p] = IF running
                        THEN [IdleFrame EXCEPT !.pc = "fetch"]
                        ELSE IdleFrame]

\* The invocation slot a timer callback of the worker uses.
FreeWorker(p) ==
    /\ p \in Workers
    /\ cyc[p].pc = "idle"
    /\ p = "w2" => cyc["w1"].pc # "idle"
    /\ cycles < MaxCycles

\* A cron callback with a cycle of its own, which does not look at the
\* running flag.
CronTick_OwnPath(p) ==
    /\ FreeWorker(p)
    /\ lastRun' = cycles + 1
    /\ cycles' = cycles + 1
    /\ cyc' = [cyc EXCEPT ![p] = [IdleFrame EXCEPT !.pc = "fetch"]]
    /\ ev' = Ev(p, NoItem, "start")
    /\ UNCHANGED <<call, runningRow, env, running, trigger, manuals,
                   startupDone, processed, pending, errors, tasks, starred,
                   marked, man>>

\* cron.schedule('*/2 * * * *')
CronTick(p) ==
    /\ FreeWorker(p)
    /\ W_processStarredEmails(p)
    /\ ev' = Ev(p, NoItem, "start")
    /\ UNCHANGED <<call, runningRow, env, running, trigger, manuals,
                   startupDone, processed, pending, errors, tasks, starred,
                   marked, man>>

\* A poll that starts a cycle and leaves the flag for the next poll.
TriggerPoll_KeepsFlag(p) ==
    /\ FreeWorker(p)
    /\ trigger
    /\ W_processStarredEmails(p)
    /\ ev' = Ev(p, NoItem, "triggered")
    /\ UNCHANGED <<call, runningRow, env, running, trigger, manuals,
                   startupDone, processed, pending, errors, tasks, starred,
                   marked, man>>

\* setInterval(10000): checkForTrigger() found and deleted the flag.
TriggerPoll(p) ==
    /\ FreeWorker(p)
    /\ trigger
    /\ trigger' = FALSE
    /\ W_processStarredEmails(p)
    /\ ev' = Ev(p, NoItem, "triggered")
    /\ UNCHANGED <<call, runningRow, env, running, manuals, startupDone,
                   processed, pending, errors, tasks, starred, marked,
                   man>>

\* setTimeout(5000), once per process.
StartupRun(p) ==
    /\ FreeWorker(p)
    /\ ~startupDone
    /\ startupDone' = TRUE
    /\ W_processStarredEmails(p)
    /\ ev' = Ev(p, NoItem, "start")
    /\ UNCHANGED <<call, runningRow, env, running, trigger, manuals,
                   processed, pending, errors, tasks, starred, marked,
                   man>>

\* A fetch whose catch does not tell GmailAuthError from other errors.
W_Fetch_AuthIsError(p) ==
    /\ p \in Workers
    /\ cyc[p].pc = "fetch"
    /\ \E r \in {"ok", "authError", "error"} :
         CASE r = "ok" ->
                /\ cyc' = [cyc EXCEPT
                             ![p] = W_Loop(
                                 [cyc[p] EXCEPT
                                    !.emails = getStarredEmails(MaxResults)],
                                 1, processed, pending)]
                /\ ev' = Ev(p, NoItem, "fetched")
                /\ UNCHANGED errors
           [] r = "authError" ->
                /\ errors' = addErrorLog(errors, "CYCLE_ERROR", NoItem)
                /\ cyc' = [cyc EXCEPT ![p] = EndFrame(cyc[p], "idle")]
                /\ ev' = Ev(p, NoItem, "authRequired")
           [] r = "error" ->
                /\ errors' = addErrorLog(errors, "CYCLE_ERROR", NoItem)
                /\ cyc' = [cyc EXCEPT ![p] = EndFrame(cyc[p], "idle")]
                /\ ev' = Ev(p, NoItem, "fetchFailed")
    /\ UNCHANGED <<call, runningRow, env, running, trigger, lastRun,
                   cycles, manuals, startupDone, processed, pending, tasks,
                   starred, marked, man>>

\* await gmail.getStarredEmails() returns or throws, for a list of at
\* most maxResults messages.
W_FetchUpTo(p, maxResults) ==
    /\ p \in Workers
    /\ cyc[p].pc = "fetch"
    /\ \E r \in {"ok", "authError", "error"} :
         CASE r = "ok" ->
                /\ cyc' = [cyc EXCEPT
                             ![p] = W_Loop(
                                 [cyc[p] EXCEPT
                                    !.emails = getStarredEmails(maxResults)],
                                 1, processed, pending)]
                /\ ev' = Ev(p, NoItem, "fetched")
                /\ UNCHANGED errors
           [] r = "authError" ->
                /\ cyc' = [cyc EXCEPT ![p] = EndFrame(cyc[p], "idle")]
                /\ ev' = Ev(p, NoItem, "authRequired")
                /\ UNCHANGED errors
           [] r = "error" ->
                /\ errors' = addErrorLog(errors, "CYCLE_ERROR", NoItem)
                /\ cyc' = [cyc EXCEPT ![p] = EndFrame(cyc[p], "idle")]
                /\ ev' = Ev(p, NoItem, "fetchFailed")
    /\ UNCHANGED <<call, runningRow, env, running, trigger, lastRun,
                   cycles, manuals, startupDone, processed, pending, tasks,
                   starred, marked, man>>

\* gmail.getStarredEmails() is called without an argument.
W_Fetch(p) == W_FetchUpTo(p, MaxResults)

\* await ClaudeCliService.extractTaskFromEmail() returns or throws.
W_Extract(p) ==
    /\ p \in Workers
    /\ cyc[p].pc = "extract"
    /\ IF cyc[p].fatal
       THEN /\ W_ItemError(p, "fatal")
            /\ UNCHANGED pending
       ELSE \E cli \in CliBehaviours, raw \in RawLabelInputs :
              LET cliResult == extractTaskFromEmail(cli, raw)
              IN  IF ~cliResult.success \/ cliResult.fallbackRequired
                  THEN /\ pending' = addPendingReview(pending, Item(cyc[p]))
                       /\ cyc' = [cyc EXCEPT
                                    ![p] = W_Loop(cyc[p], cyc[p].i + 1,
                                                  processed, pending')]
                       /\ ev' = Ev(p, Item(cyc[p]), "fallback")
                       /\ UNCHANGED errors
                  ELSE /\ cyc' = [cyc EXCEPT
                                    ![p].pc = "create",
                                    ![p].labels =
                                        normalizeLabels(cliResult.labels)]
                       /\ ev' = Ev(p, Item(cyc[p]), "extracted")
                       /\ UNCHANGED <<pending, errors>>
    /\ UNCHANGED <<call, runningRow, env, running, trigger, lastRun,
                   cycles, manuals, startupDone, processed, tasks, starred,
                   marked, man>>

\* The id the tracker gives the next task made for e-mail x.
NewTaskId(x) == <<x, Len(tasks[x]) + 1>>

\* POST /tasks succeeded: the tracker holds one more task.
TrackerCreate(x, labels) == [tasks EXCEPT ![x] = Append(@, labels)]

\* await todoist.createTask() returns or throws.
W_Create(p) ==
    /\ p \in Workers
    /\ cyc[p].pc = "create"
    /\ \E ok \in BOOLEAN :
         IF ok
         THEN /\ tasks' = TrackerCreate(Item(cyc[p]), cyc[p].labels)
              /\ cyc' = [cyc EXCEPT ![p].pc = "label",
                                    ![p].task = NewTaskId(Item(cyc[p]))]
              /\ ev' = Ev(p, Item(cyc[p]), "created")
              /\ UNCHANGED errors
         ELSE /\ W_ItemError(p, "createFailed")
              /\ UNCHANGED tasks
    /\ UNCHANGED <<call, runningRow, env, running, trigger, lastRun,
                   cycles, manuals, startupDone, processed, pending,
                   starred, marked, man>>

\* await gmail.labelEmail(email.id, 'Processed') returns or throws.
W_Label(p) ==
    /\ p \in Workers
    /\ cyc[p].pc = "label"
    /\ \E ok \in BOOLEAN :
         IF ok
         THEN /\ marked' = marked \cup {Item(cyc[p])}
              /\ cyc' = [cyc EXCEPT ![p].pc = "unstar"]
              /\ ev' = Ev(p, Item(cyc[p]), "labelled")
              /\ UNCHANGED errors
         ELSE /\ W_ItemError(p, "markFailed")
              /\ UNCHANGED marked
    /\ UNCHANGED <<call, runningRow, env, running, trigger, lastRun,
                   cycles, manuals, startupDone, processed, pending, tasks,
                   starred, man>>

\* A row written without the id the tracker returned.
ProcessedRow_NoTask(gmailId, taskId, labels, mode) ==
    [gmail_id |-> gmailId, todoist_task_id |-> NoTask, labels |-> labels,
     processing_mode |-> mode]

\* The row written for a committed e-mail.
ProcessedRow(gmailId, taskId, labels, mode) ==
    [gmail_id |-> gmailId, todoist_task_id |-> taskId, labels |-> labels,
     processing_mode |-> mode]

\* await gmail.unstarEmail(email.id) returns or throws; on return the
\* worker records the e-mail, and the INSERT throws on a taken gmail_id.
W_Unstar(p) ==
    /\ p \in Workers
    /\ cyc[p].pc = "unstar"
    /\ \E ok \in BOOLEAN :
         IF ok
         THEN LET ins == addProcessedEmail(
                             processed,
                             ProcessedRow(Item(cyc[p]), cyc[p].task,
                                          cyc[p].labels, "auto"))
              IN  /\ starred' = starred \ {Item(cyc[p])}
                  /\ processed' = ins.rows
                  /\ errors' = IF ins.ok THEN errors
                               ELSE addErrorLog(errors, "PROCESSING_ERROR",
                                                Item(cyc[p]))
                  /\ cyc' = [cyc EXCEPT
                               ![p] = W_Loop(cyc[p], cyc[p].i + 1,
                                             processed', pending)]
                  /\ ev' = Ev(p, Item(cyc[p]),
                              IF ins.ok THEN "recorded" ELSE "conflict")
         ELSE /\ W_ItemError(p, "markFailed")
              /\ UNCHANGED <<starred, processed>>
    /\ UNCHANGED <<call, runningRow, env, running, trigger, lastRun,
                   cycles, manuals, startupDone, pending, tasks, marked,
                   man>>

\* ------------------------------------------- the web process's cycle
\* The web process runs one callback at a time: between the two statements
\* that end processManualTask (man.pc = "record") none of its other
\* callbacks runs.  The worker is another process and may.
WebTurn == man.pc # "record"

\* The e-mail's outcome, kept with the invocation's result.
Noted(c, outcome) == [c EXCEPT !.hist[Item(c)] = outcome]

\* ProcessorService's for-loop from position j; when it is over the
\* invocation returns its result.
S_Loop(c, j, procRows, pendRows) ==
    LET n == NextNew(c.emails, j, procRows, pendRows)
        passed == {c.emails[k] : k \in j..(n - 1)}
        seen == [c EXCEPT !.hist = [x \in Items |->
                                      IF x \in passed THEN "skipped"
                                      ELSE c.hist[x]]]
    IN  IF n > Len(c.emails)
        THEN EndFrame(seen, "returned")
        ELSE [seen EXCEPT !.pc = "extract", !.i = n, !.fatal = env[WebProc],
                          !.labels = <<>>, !.task = NoTask]

\* A catch around the whole for-loop instead of around processEmail: the
\* first failing e-mail ends the batch.
S_ItemError_Abort(outcome) ==
    /\ errors' = addErrorLog(errors, "PROCESSING_ERROR", Item(cyc[Service]))
    /\ cyc' = [cyc EXCEPT
                 ![Service] =
                     EndFrame([Noted(cyc[Service], outcome) EXCEPT
                                 !.result.errors = @ + 1],
                              "returned")]
    /\ ev' = Ev(Service, Item(cyc[Service]), outcome)

\* The catch around processEmail: log, count, go on with the next e-mail.
S_ItemError(outcome) ==
    /\ errors' = addErrorLog(errors, "PROCESSING_ERROR", Item(cyc[Service]))
    /\ cyc' = [cyc EXCEPT
                 ![Service] =
                     S_Loop([Noted(cyc[Service], outcome) EXCEPT
                               !.result.errors = @ + 1],
                            cyc[Service].i + 1, processed, pending)]
    /\ ev' = Ev(Service, Item(cyc[Service]), outcome)

\* A loop that, after an e-mail is done, leaves out the one that follows.
S_ItemDone_SkipsNext(outcome, procRows, pendRows) ==
    /\ cyc' = [cyc EXCEPT
                 ![Service] =
                     S_Loop([Noted(cyc[Service], outcome) EXCEPT
                               !.result.processed = @ + 1],
                            cyc[Service].i + 2, procRows, pendRows)]
    /\ ev' = Ev(Service, Item(cyc[Service]), outcome)

\* processEmail returned: result.processed++, go on with the next e-mail.
S_ItemDone(outcome, procRows, pendRows) ==
    /\ cyc' = [cyc EXCEPT
                 ![Service] =
                     S_Loop([Noted(cyc[Service], outcome) EXCEPT
                               !.result.processed = @ + 1],
                            cyc[Service].i + 1, procRows, pendRows)]
    /\ ev' = Ev(Service, Item(cyc[Service]), outcome)

\* A run_once that records the last-run time after the environment check.
S_RunOnce_ValidatesFirst ==
    /\ WebTurn
    /\ cyc[Service].pc \in {"idle", "returned", "threw"}
    /\ cycles < MaxCycles
    /\ lastRun' = IF env[WebProc] THEN lastRun ELSE cycles + 1
    /\ cycles' = cycles + 1
    /\ IF env[WebProc]
       THEN /\ errors' = addErrorLog(errors, "ENV_ERROR", NoItem)
            /\ cyc' = [cyc EXCEPT ![Service] = EndFrame(IdleFrame, "threw")]
       ELSE /\ cyc' = [cyc EXCEPT
                         ![Service] = [IdleFrame EXCEPT !.pc = "fetch"]]
            /\ UNCHANGED errors
    /\ ev' = Ev(Service, NoItem, "start")
    /\ UNCHANGED <<call, runningRow, env, running, trigger, manuals,
                   startupDone, processed, pending, tasks, starred, marked,
                   man>>

\* POST /api/control {action: 'run_once'}: ProcessorService
\* .processStarredEmails() up to its first await, or to its throw.
S_RunOnce ==
    /\ WebTurn
    /\ cyc[Service].pc \in {"idle", "returned", "threw"}
    /\ cycles < MaxCycles
    /\ lastRun' = cycles + 1
    /\ cycles' = cycles + 1
    /\ IF env[WebProc]
       THEN /\ errors' = addErrorLog(errors, "ENV_ERROR", NoItem)
            /\ cyc' = [cyc EXCEPT ![Service] = EndFrame(IdleFrame, "threw")]
       ELSE /\ cyc' = [cyc EXCEPT
                         ![Service] = [IdleFrame EXCEPT !.pc = "fetch"]]
            /\ UNCHANGED errors
    /\ ev' = Ev(Service, NoItem, "start")
    /\ UNCHANGED <<call, runningRow, env, running, trigger, manuals,
                   startupDone, processed, pending, tasks, starred, marked,
                   man>>

\* await this.gmail.getStarredEmails() returns or throws.
S_Fetch ==
    /\ WebTurn
    /\ cyc[Service].pc = "fetch"
    /\ \E r \in {"ok", "authError", "error"} :
         /\ cyc' = [cyc EXCEPT
                   ![Service] =
                       CASE r = "ok" ->
                              S_Loop([cyc[Service] EXCEPT
                                        !.emails =
                                            getStarredEmails(MaxResults),
                                        !.hist = [x \in Items |->
                                                    IF x \in starred
                                                    THEN "queued"
                                                    ELSE "none"]],
                                     1, processed, pending)
                         [] r = "authError" ->
                              EndFrame([cyc[Service] EXCEPT
                                          !.result.authRequired = TRUE,
                                          !.result.authUrl = AuthUrl],
                                       "returned")
                         [] r = "error" ->
                              EndFrame(cyc[Service], "threw")]
         /\ ev' = Ev(Service, NoItem,
                     CASE r = "ok" -> "fetched"
                       [] r = "authError" -> "authRequired"
                       [] r = "error" -> "fetchFailed")
    /\ UNCHANGED <<call, runningRow, env, running, trigger, lastRun,
                   cycles, manuals, startupDone, processed, pending,
                   errors, tasks, starred, marked, man>>

\* processEmail: await extractTaskFromEmail() returns or throws.
S_Extract ==
    /\ WebTurn
    /\ cyc[Service].pc = "extract"
    /\ IF cyc[Service].fatal
       THEN /\ S_ItemError("fatal")
            /\ UNCHANGED pending
       ELSE \E cli \in CliBehaviours, raw \in RawLabelInputs :
              LET cliResult == extractTaskFromEmail(cli, raw)
              IN  IF ~cliResult.success
                  THEN /\ pending' = addPendingReview(pending,
                                                      Item(cyc[Service]))
                       /\ S_ItemDone("fallback", processed, pending')
                       /\ UNCHANGED errors
                  ELSE /\ cyc' = [cyc EXCEPT
                                    ![Service].pc = "create",
                                    ![Service].labels =
                                        normalizeLabels(cliResult.labels)]
                       /\ ev' = Ev(Service, Item(cyc[Service]), "extracted")
                       /\ UNCHANGED <<pending, errors>>
    /\ UNCHANGED <<call, runningRow, env, running, trigger, lastRun,
                   cycles, manuals, startupDone, processed, tasks, starred,
                   marked, man>>

\* processEmail: await this.todoist.createTask() returns or throws.
S_Create ==
    /\ WebTurn
    /\ cyc[Service].pc = "create"
    /\ \E ok \in BOOLEAN :
         IF ok
         THEN /\ tasks' = TrackerCreate(Item(cyc[Service]),
                                        cyc[Service].labels)
              /\ cyc' = [cyc EXCEPT
                           ![Service].pc = "label",
                           ![Service].task = NewTaskId(Item(cyc[Service]))]
              /\ ev' = Ev(Service, Item(cyc[Service]), "created")
              /\ UNCHANGED errors
         ELSE /\ S_ItemError("createFailed")
              /\ UNCHANGED tasks
    /\ UNCHANGED <<call, runningRow, env, running, trigger, lastRun,
                   cycles, manuals, startupDone, processed, pending,
                   starred, marked, man>>

\* processEmail: await this.gmail.labelEmail() returns or throws.
S_Label ==
    /\ WebTurn
    /\ cyc[Service].pc = "label"
    /\ \E ok \in BOOLEAN :
         IF ok
         THEN /\ marked' = marked \cup {Item(cyc[Service])}
              /\ cyc' = [cyc EXCEPT ![Service].pc = "unstar"]
              /\ ev' = Ev(Service, Item(cyc[Service]), "labelled")
              /\ UNCHANGED errors
         ELSE /\ S_ItemError("markFailed")
              /\ UNCHANGED marked
    /\ UNCHANGED <<call, runningRow, env, running, trigger, lastRun,
                   cycles, manuals, startupDone, processed, pending, tasks,
                   starred, man>>

\* processEmail: await this.gmail.unstarEmail() returns or throws; on
\* return addProcessedEmail, which throws on a taken gmail_id.
S_Unstar ==
    /\ WebTurn
    /\ cyc[Service].pc = "unstar"
    /\ \E ok \in BOOLEAN :
         IF ok
         THEN LET ins == addProcessedEmail(
                             processed,
                             ProcessedRow(Item(cyc[Service]),
                                          cyc[Service].task,
                                          cyc[Service].labels, "auto"))
              IN  /\ starred' = starred \ {Item(cyc[Service])}
                  /\ processed' = ins.rows
                  /\ IF ins.ok
                     THEN /\ S_ItemDone("recorded", processed', pending)
                          /\ UNCHANGED errors
                     ELSE S_ItemError("conflict")
         ELSE /\ S_ItemError("markFailed")
              /\ UNCHANGED <<starred, processed>>
    /\ UNCHANGED <<call, runningRow, env, running, trigger, lastRun,
                   cycles, manuals, startupDone, pending, tasks, marked,
                   man>>

\* ------------------------------------------------ manual operations
\* The labels a reviewer submits.
ManualLabelInputs == {<<"2170911462">>}

\* The review ids a request may name: every row, and one that is no row.
ReviewIds == 1..(Len(pending) + 1)

\* A catch of processManualTask that logs without the e-mail's id.
M_Error_Untagged ==
    /\ errors' = addErrorLog(errors, "MANUAL_PROCESSING_ERROR", NoItem)
    /\ man' = IdleManual

\* The catch of processManualTask: log with the e-mail's id, return
\* {success: false}.
M_Error ==
    /\ errors' = addErrorLog(errors, "MANUAL_PROCESSING_ERROR", man.gmail_id)
    /\ man' = IdleManual

\* POST /api/pending {action: 'submit'}: processManualTask up to its first
\* await, or to its return when the review does not exist.
M_Submit(id) ==
    /\ man.pc = "idle"
    /\ manuals < MaxManual
    /\ manuals' = manuals + 1
    /\ LET found == getPendingReviewById(pending, id)
       IN  IF found = <<>>
           THEN man' = IdleManual
           ELSE \E labels \in ManualLabelInputs :
                  man' = [pc |-> "create", id |-> id,
                          labels |-> normalizeLabels(labels),
                          task |-> NoTask, gmail_id |-> found[1].gmail_id]
    /\ ev' = NoEv
    /\ UNCHANGED <<call, runningRow, env, running, trigger, lastRun,
                   cycles, startupDone, processed, pending, errors, tasks,
                   starred, marked, cyc>>

\* await this.todoist.createTask() returns or throws.
M_Create ==
    /\ man.pc = "create"
    /\ \E ok \in BOOLEAN :
         IF ok
         THEN /\ tasks' = TrackerCreate(man.gmail_id, man.labels)
              /\ man' = [man EXCEPT !.pc = "label",
                                    !.task = NewTaskId(man.gmail_id)]
              /\ ev' = Ev(Manual, man.gmail_id, "created")
              /\ UNCHANGED errors
         ELSE /\ M_Error
              /\ ev' = Ev(Manual, man.gmail_id, "createFailed")
              /\ UNCHANGED tasks
    /\ UNCHANGED <<call, runningRow, env, running, trigger, lastRun,
                   cycles, manuals, startupDone, processed, pending,
                   starred, marked, cyc>>

\* updatePendingReviewStatus(pendingReviewId, 'completed'); the INSERT of
\* the processed row is the next statement on the shared store.
M_Complete ==
    /\ pending' = updatePendingReviewStatus(pending, man.id, "completed")
    /\ man' = [man EXCEPT !.pc = "record"]

\* await this.gmail.labelEmail() returns or throws (the inner catch goes on).
M_Label ==
    /\ man.pc = "label"
    /\ \E ok \in BOOLEAN :
         IF ok
         THEN /\ marked' = marked \cup {man.gmail_id}
              /\ man' = [man EXCEPT !.pc = "unstar"]
              /\ ev' = Ev(Manual, man.gmail_id, "labelled")
              /\ UNCHANGED pending
         ELSE /\ M_Complete
              /\ ev' = Ev(Manual, man.gmail_id, "markFailed")
              /\ UNCHANGED marked
    /\ UNCHANGED <<call, runningRow, env, running, trigger, lastRun,
                   cycles, manuals, startupDone, processed, errors, tasks,
                   starred, cyc>>

\* await this.gmail.unstarEmail() returns or throws (the inner catch goes on).
M_Unstar ==
    /\ man.pc = "unstar"
    /\ \E ok \in BOOLEAN :
         /\ starred' = IF ok THEN starred \ {man.gmail_id} ELSE starred
         /\ ev' = Ev(Manual, man.gmail_id, IF ok THEN "labelled" ELSE "markFailed")
    /\ M_Complete
    /\ UNCHANGED <<call, runningRow, env, running, trigger, lastRun,
                   cycles, manuals, startupDone, processed, errors, tasks,
                   marked, cyc>>

\* A processManualTask that returns after completing the review, without
\* recording the e-mail.
M_Record_Forgotten ==
    /\ man.pc = "record"
    /\ man' = IdleManual
    /\ ev' = Ev(Manual, man.gmail_id, "recorded")
    /\ UNCHANGED <<call, runningRow, env, running, trigger, lastRun,
                   cycles, manuals, startupDone, processed, pending,
                   errors, tasks, starred, marked, cyc>>

\* addProcessedEmail({..., processing_mode: 'manual'}) and the return; the
\* INSERT throws on a taken gmail_id, into the catch of processManualTask.
M_Record ==
    /\ man.pc = "record"
    /\ LET ins == addProcessedEmail(
                      processed,
                      ProcessedRow(man.gmail_id, man.task, man.labels,
                                   "manual"))
       IN  /\ processed' = ins.rows
           /\ IF ins.ok
              THEN /\ man' = IdleManual
                   /\ UNCHANGED errors
              ELSE M_Error
           /\ ev' = Ev(Manual, man.gmail_id,
                       IF ins.ok THEN "recorded" ELSE "conflict")
    /\ UNCHANGED <<call, runningRow, env, running, trigger, lastRun,
                   cycles, manuals, startupDone, pending, tasks, starred,
                   marked, cyc>>

\* POST /api/pending {action: 'skip'}: skipPendingReview
Skip(id) ==
    /\ WebTurn
    /\ manuals < MaxManual
    /\ manuals' = manuals + 1
    /\ pending' = updatePendingReviewStatus(pending, id, "skipped")
    /\ ev' = NoEv
    /\ UNCHANGED <<call, runningRow, env, running, trigger, lastRun,
                   cycles, startupDone, processed, errors, tasks, starred,
                   marked, cyc, man>>

\* ------------------------------------------------------------- controls
\* isAutomationRunning()
isAutomationRunning == running

\* A start that also withdraws a requested trigger.
Start_ClearsTrigger ==
    /\ running' = TRUE
    /\ trigger' = FALSE
    /\ ev' = NoEv
    /\ UNCHANGED <<call, runningRow, env, lastRun, cycles, manuals,
                   startupDone, processed, pending, errors, tasks, starred,
                   marked, cyc, man>>

\* POST /api/control {action: 'start'}
Start ==
    /\ running' = IF isAutomationRunning THEN running ELSE TRUE
    /\ ev' = NoEv
    /\ UNCHANGED <<call, runningRow, env, trigger, lastRun, cycles,
                   manuals, startupDone, processed, pending, errors, tasks,
                   starred, marked, cyc, man>>

\* POST /api/control {action: 'stop'}
Stop ==
    /\ running' = IF ~isAutomationRunning THEN running ELSE FALSE
    /\ ev' = NoEv
    /\ UNCHANGED <<call, runningRow, env, trigger, lastRun, cycles,
                   manuals, startupDone, processed, pending, errors, tasks,
                   starred, marked, cyc, man>>

\* POST /api/control {action: 'trigger'}
Trigger ==
    /\ trigger' = TRUE
    /\ ev' = NoEv
    /\ UNCHANGED <<call, runningRow, env, running, lastRun, cycles,
                   manuals, startupDone, processed, pending, errors, tasks,
                   starred, marked, cyc, man>>

\* ------------------------------------------------------------ the store
\* getStats(): SELECT COUNT(*) FROM pending_reviews WHERE status =
\* 'pending'.  The two counts over the last 24 hours are left out: the
\* model has no wall clock.
getStats ==
    [pendingReviewCount |->
         Len(SelectSeq(pending, LAMBDA row : row.status = "pending"))]

\* GET /api/status: the part of the answer that is read from the store.
GetStatus ==
    [running |-> isAutomationRunning,
     lastRun |-> lastRun,
     pendingReviewCount |-> getStats.pendingReviewCount]

\* An initializeDatabase that writes the default over the stored value.
initializeDatabase_Resets(q) ==
    /\ q \in Procs
    /\ running' = FALSE
    /\ runningRow' = TRUE
    /\ cyc' = [p \in Slots |->
                 IF ProcOf(p) = q THEN IdleFrame ELSE cyc[p]]
    /\ man' = IF q = WebProc THEN IdleManual ELSE man
    /\ startupDone' = IF q = WorkerProc THEN FALSE ELSE startupDone
    /\ ev' = Ev(IF q = WorkerProc THEN "w1" ELSE Service, NoItem,
                "initialized")
    /\ UNCHANGED <<call, env, trigger, lastRun, cycles, manuals, processed,
                   pending, errors, tasks, starred, marked>>

\* Process q starts, losing what it had in flight, and opens the store:
\* initializeDatabase inserts 'running' = 'false' if there is no 'running'
\* row.  The worker's timers are armed anew.
initializeDatabase(q) ==
    /\ q \in Procs
    /\ running' = IF ~runningRow THEN FALSE ELSE running
    /\ runningRow' = TRUE
    /\ cyc' = [p \in Slots |->
                 IF ProcOf(p) = q THEN IdleFrame ELSE cyc[p]]
    /\ man' = IF q = WebProc THEN IdleManual ELSE man
    /\ startupDone' = IF q = WorkerProc THEN FALSE ELSE startupDone
    /\ ev' = Ev(IF q = WorkerProc THEN "w1" ELSE Service, NoItem,
                "initialized")
    /\ UNCHANGED <<call, env, trigger, lastRun, cycles, manuals, processed,
                   pending, errors, tasks, starred, marked>>

\* ---------------------------------------------------------- environment
\* process.env.ANTHROPIC_API_KEY of a process is read anew by every
\* validateEnvironment(); it is set or removed outside the program.
EnvChange(q) ==
    /\ env' = [env EXCEPT ![q] = ~@]
    /\ ev' = NoEv
    /\ UNCHANGED <<call, runningRow, running, trigger, lastRun, cycles,
                   manuals, startupDone, processed, pending, errors, tasks,
                   starred, marked, cyc, man>>

\* The mailbox's owner stars an e-mail (again).
UserStar(x) ==
    /\ x \notin starred
    /\ starred' = starred \cup {x}
    /\ ev' = NoEv
    /\ UNCHANGED <<call, runningRow, env, running, trigger, lastRun,
                   cycles, manuals, startupDone, processed, pending,
                   errors, tasks, marked, cyc, man>>

\* ------------------------------------------------------ specifications
\* The worker process: its three timers, the invocations they start, the
\* controls that steer it, its environment and the mailbox's owner.
WorkerNext ==
    \/ \E p \in Workers : CronTick(p)
    \/ \E p \in Workers : TriggerPoll(p)
    \/ \E p \in Workers : StartupRun(p)
    \/ \E p \in Workers : W_Fetch(p)
    \/ \E p \in Workers : W_Extract(p)
    \/ \E p \in Workers : W_Create(p)
    \/ \E p \in Workers : W_Label(p)
    \/ \E p \in Workers : W_Unstar(p)
    \/ Start
    \/ Stop
    \/ Trigger
    \/ EnvChange(WorkerProc)
    \/ \E x \in Items : UserStar(x)

\* The web process: run_once and the reviewer's submit and skip.
WebNext ==
    \/ S_RunOnce
    \/ S_Fetch
    \/ S_Extract
    \/ S_Create
    \/ S_Label
    \/ S_Unstar
    \/ \E id \in ReviewIds : M_Submit(id)
    \/ M_Create
    \/ M_Label
    \/ M_Unstar
    \/ M_Record
    \/ \E id \in ReviewIds : Skip(id)
    \/ EnvChange(WebProc)
    \/ \E x \in Items : UserStar(x)

\* Both processes on the shared store.
Next == WorkerNext \/ WebNext

Spec == Init /\ [][Next]_vars

SpecWorker == Init /\ [][WorkerNext]_vars

SpecWeb == Init /\ [][WebNext]_vars

\* The writers of the ledger racing on it: overlapping invocations of the
\* worker's cycle and the reviewer's operations.
WritersNext ==
    \/ \E p \in Workers : CronTick(p)
    \/ \E p \in Workers : W_Fetch(p)
    \/ \E p \in Workers : W_Extract(p)
    \/ \E p \in Workers : W_Create(p)
    \/ \E p \in Workers : W_Label(p)
    \/ \E p \in Workers : W_Unstar(p)
    \/ \E id \in ReviewIds : M_Submit(id)
    \/ M_Create
    \/ M_Label
    \/ M_Unstar
    \/ M_Record
    \/ \E id \in ReviewIds : Skip(id)
    \/ Start
    \/ \E x \in Items : UserStar(x)

SpecWriters == Init /\ [][WritersNext]_vars

\* No invocation of a cycle is in flight.
Quiet == \A p \in Slots : cyc[p].pc \in {"idle", "returned", "threw"}

\* A cron tick that finds no cycle in flight.
SerialCronTick(p) == Quiet /\ CronTick(p)

\* A run_once request that finds no cycle in flight.
SerialRunOnce == Quiet /\ S_RunOnce

\* Cycles run one after the other, of either process, and nothing else
\* writes the ledger.
SerialNext ==
    \/ \E p \in Workers : SerialCronTick(p)
    \/ SerialRunOnce
    \/ \E p \in Workers : W_Fetch(p)
    \/ \E p \in Workers : W_Extract(p)
    \/ \E p \in Workers : W_Create(p)
    \/ \E p \in Workers : W_Label(p)
    \/ \E p \in Workers : W_Unstar(p)
    \/ S_Fetch
    \/ S_Extract
    \/ S_Create
    \/ S_Label
    \/ S_Unstar
    \/ Start
    \/ \E x \in Items : UserStar(x)

SpecSerial == Init /\ [][SerialNext]_vars

\* The store from before its first initialization, over restarts of both
\* processes: a process opens the store before it does anything else.
InitStore == ProgramInit /\ runningRow = FALSE /\ call = NoCall

\* A trigger poll and a start-up run that find no cycle in flight.
SerialTriggerPoll(p) == Quiet /\ TriggerPoll(p)
SerialStartupRun(p) == Quiet /\ StartupRun(p)

StoreNext ==
    \/ \E q \in Procs : initializeDatabase(q)
    \/ runningRow /\ Start
    \/ runningRow /\ Stop
    \/ runningRow /\ Trigger
    \/ runningRow /\ \E q \in Procs : EnvChange(q)
    \/ runningRow /\ \E p \in Workers : SerialCronTick(p)
    \/ runningRow /\ \E p \in Workers : SerialTriggerPoll(p)
    \/ runningRow /\ \E p \in Workers : SerialStartupRun(p)
    \/ runningRow /\ SerialRunOnce
    \/ \E p \in Workers : W_Fetch(p)
    \/ \E p \in Workers : W_Extract(p)
    \/ \E p \in Workers : W_Create(p)
    \/ \E p \in Workers : W_Label(p)
    \/ \E p \in Workers : W_Unstar(p)
    \/ S_Fetch
    \/ S_Extract
    \/ S_Create
    \/ S_Label
    \/ S_Unstar

SpecStore == InitStore /\ [][StoreNext]_vars

\* The worker for ever: cron ticks without end on a logical clock that
\* stops at MaxCycles, one invocation at a time, a mailbox that holds more
\* starred e-mails than a fetch returns, and calls that may fail but write
\* at most MaxErrors rows to error_log.
RECURSIVE SumOver(_, _)
SumOver(f, S) ==
    IF S = {} THEN 0
    ELSE LET k == CHOOSE k \in S : TRUE
         IN  f[k] + SumOver(f, S \ {k})

ErrorsCapped == errors' # errors => SumOver(errors, DOMAIN errors) < MaxErrors

LiveCronTick ==
    /\ cyc["w1"].pc = "idle"
    /\ lastRun' = IF cycles < MaxCycles THEN cycles + 1 ELSE cycles
    /\ cycles' = IF cycles < MaxCycles THEN cycles + 1 ELSE cycles
    /\ cyc' = [cyc EXCEPT
                 !["w1"] = IF running
                           THEN [IdleFrame EXCEPT !.pc = "fetch"]
                           ELSE IdleFrame]
    /\ ev' = Ev("w1", NoItem, "start")
    /\ UNCHANGED <<call, runningRow, env, running, trigger, manuals,
                   startupDone, processed, pending, errors, tasks, starred,
                   marked, man>>

LiveFetch == W_FetchUpTo("w1", BatchLimit) /\ ErrorsCapped
LiveExtract == W_Extract("w1") /\ ErrorsCapped
LiveCreate == W_Create("w1") /\ ErrorsCapped
LiveLabel == W_Label("w1") /\ ErrorsCapped
LiveUnstar == W_Unstar("w1") /\ ErrorsCapped

LiveNext ==
    \/ Start
    \/ LiveCronTick
    \/ LiveFetch
    \/ LiveExtract
    \/ LiveCreate
    \/ LiveLabel
    \/ LiveUnstar

\* The timers fire again and again, a start request is served, and each
\* awaited call that is made again and again succeeds again and again.
LiveFairness ==
    /\ WF_vars(Start)
    /\ WF_vars(LiveCronTick)
    /\ SF_vars(LiveFetch /\ ev'.outcome = "fetched")
    /\ SF_vars(LiveExtract /\ ev'.outcome = "extracted")
    /\ SF_vars(LiveCreate /\ ev'.outcome = "created")
    /\ SF_vars(LiveLabel /\ ev'.outcome = "labelled")
    /\ SF_vars(LiveUnstar /\ ev'.outcome = "recorded")

SpecLive == Init /\ [][LiveNext]_vars /\ LiveFairness

\* normalizeLabels on its own.  The ids a caller may pass: two durations
\* (one the default), two contexts (one the default), a theme, a string
\* that is no key at all, and a key every object inherits.
LabelAlphabet ==
    {"2170911418", "2170911443", "2170910796", "2171144969", "2170793536",
     "bogus", "constructor"}

LabelInputs == UNION {[1..n -> LabelAlphabet] : n \in 0..MaxLabels}

InitNormalize ==
    /\ SystemInit
    /\ call \in {[labelIds |-> s, result |-> <<>>, done |-> FALSE] :
                   s \in LabelInputs}

\* normalizeLabels(labelIds) is called and returns.
Normalize ==
    /\ ~call.done
    /\ call' = [call EXCEPT !.result = normalizeLabels(call.labelIds),
                            !.done = TRUE]
    /\ UNCHANGED <<env, running, runningRow, trigger, lastRun, cycles,
                   manuals,
                   startupDone, processed, pending, errors, tasks, starred,
                   marked, cyc, man, ev>>

SpecNormalize == InitNormalize /\ [][Normalize]_vars

\* normalizeLabels(...) is called on what a call of it returned.
NormalizeAgain ==
    /\ call.done
    /\ "again" \notin DOMAIN call
    /\ call' = [labelIds |-> call.labelIds, result |-> call.result,
                done |-> TRUE, again |-> normalizeLabels(call.result)]
    /\ UNCHANGED <<env, running, runningRow, trigger, lastRun, cycles,
                   manuals, startupDone, processed, pending, errors, tasks,
                   starred, marked, cyc, man, ev>>

SpecRenormalize == InitNormalize /\ [][Normalize \/ NormalizeAgain]_vars

\* extractTaskFromEmail on its own: ANTHROPIC_API_KEY is set or not, the
\* CLI behaves in one of its ways, and a well-formed answer carries a
\* labels array.
InitExtract ==
    /\ SystemInit
    /\ call \in {[apiKey |-> k, cli |-> c, labelIds |-> s,
                   result |-> <<>>, threw |-> FALSE, done |-> FALSE] :
                   k \in BOOLEAN, c \in CliBehaviours, s \in LabelInputs}

\* extractTaskFromEmail(...) is called and returns or throws:
\* validateEnvironment() throws before anything else is looked at.
Extract ==
    /\ ~call.done
    /\ call' = IF call.apiKey
               THEN [call EXCEPT !.threw = TRUE, !.done = TRUE]
               ELSE [call EXCEPT
                       !.result = extractTaskFromEmail(call.cli,
                                                       call.labelIds),
                       !.done = TRUE]
    /\ UNCHANGED <<env, running, runningRow, trigger, lastRun, cycles,
                   manuals,
                   startupDone, processed, pending, errors, tasks, starred,
                   marked, cyc, man, ev>>

SpecExtract == InitExtract /\ [][Extract]_vars

\* createTask's translation of input.labels on its own: one TodoistService
\* is handed the same ids MaxCalls times, either as they come or as
\* normalizeLabels returns them.
InitLabelNames ==
    /\ SystemInit
    /\ call \in {[labelIds |-> IF n THEN normalizeLabels(s) ELSE s,
                   normalized |-> n, cache |-> EmptyCache, names |-> <<>>,
                   first |-> <<>>, calls |-> 0] :
                   s \in LabelInputs, n \in BOOLEAN}

\* createTask(input): labelNames = await getLabelNames(input.labels);
\* body.labels is labelNames, left out when empty.
CreateTaskLabels ==
    /\ call.calls < MaxCalls
    /\ LET r == getLabelNames(call.labelIds, call.cache)
       IN  call' = [call EXCEPT
                      !.names = r.names,
                      !.cache = r.cache,
                      !.first = IF call.calls = 0 THEN r.names ELSE @,
                      !.calls = @ + 1]
    /\ UNCHANGED <<env, running, runningRow, trigger, lastRun, cycles,
                   manuals,
                   startupDone, processed, pending, errors, tasks, starred,
                   marked, cyc, man, ev>>

SpecLabelNames == InitLabelNames /\ [][CreateTaskLabels]_vars

\* The composition of the description on its own, on each of the three
\* paths: the sender and subject getStarredEmails returns (a header value
\* or its stand-in), a thread id, and notes that are missing, empty or a
\* text.
DescriptionPaths == {"service", "worker", "manual"}
SenderInputs == {"Ann <ann@example.org>", "Unknown"}
SubjectInputs == {"Invoice 17", "No Subject"}
ThreadIdInputs == {"18c2f0", "18c2f1"}
NotesInputs == {<<>>, <<"">>, <<"Due on Friday">>}

InitDescribe ==
    /\ SystemInit
    /\ call \in {[path |-> q,
                  email |-> [sender |-> a, subject |-> b, threadId |-> t],
                  notes |-> n, description |-> "", done |-> FALSE] :
                   q \in DescriptionPaths, a \in SenderInputs,
                   b \in SubjectInputs, t \in ThreadIdInputs,
                   n \in NotesInputs}

\* The description is composed on the path of the call.
Describe ==
    /\ ~call.done
    /\ call' = [call EXCEPT
                  !.description =
                      CASE call.path = "service" ->
                             processEmailDescription(call.email, call.notes)
                        [] call.path = "worker" ->
                             workerDescription(call.email, call.notes)
                        [] call.path = "manual" ->
                             processManualTaskDescription(
                                 PendingRowOf(call.email), call.notes),
                  !.done = TRUE]
    /\ UNCHANGED <<env, running, runningRow, trigger, lastRun, cycles,
                   manuals,
                   startupDone, processed, pending, errors, tasks, starred,
                   marked, cyc, man, ev>>

SpecDescribe == InitDescribe /\ [][Describe]_vars

\* ------------------------------------------------------------ properties
\* Rows of a table that carry the gmail_id x.
RowsOf(rows, x) == {k \in 1..Len(rows) : rows[k].gmail_id = x}

\* Number of processed_emails and pending_reviews rows for e-mail x.
RowCount(x) ==
    Cardinality(RowsOf(processed, x)) + Cardinality(RowsOf(pending, x))

\* Outcomes that are a failure of the commit of an extracted e-mail.
CommitFailures == {"createFailed", "markFailed", "conflict"}

\* C1: across any number of cycles and any outcomes of the external calls,
\* the tracker holds at most one task per e-mail.
C1_AtMostOneTaskPerItem == \A x \in Items : Len(tasks[x]) <= 1

\* C2: no two executions of the worker's cycle overlap: while one
\* invocation is in flight, a timer that fires starts no other.
C2_NoOverlappingCycles ==
    Cardinality({p \in Workers : cyc[p].pc # "idle"}) <= 1

\* C3: no e-mail has a processed_emails row and a pending_reviews row of
\* status pending at the same time.
C3_ProcessedXorPending ==
    \A x \in Items :
        ~(isEmailProcessed(processed, x) /\ isPendingReview(pending, x))

\* C4: when cycles run one after the other and nothing else writes the
\* ledger, an e-mail never has two rows (processed or pending review), and
\* an e-mail a run has recorded or sent to review has exactly one: a later
\* run skips it and adds no row.
C4_RerunAddsNoRow ==
    /\ \A x \in Items : RowCount(x) <= 1
    /\ ev.outcome \in {"fallback", "recorded"} => RowCount(ev.item) = 1

\* C4 happens: the second run_once fetched e-mail 1 again, found the row the
\* first cycle wrote for it, skipped it and went on with e-mail 2.
C4_Witness ==
    /\ cycles = 2
    /\ cyc[Service].pc = "extract"
    /\ cyc[Service].emails = <<1, 2>>
    /\ cyc[Service].i = 2
    /\ cyc[Service].hist[1] = "skipped"
    /\ RowCount(1) = 1

\* C5: every step leaves the existing processed_emails rows as they are and
\* at most one row per gmail_id; the insert that meets a taken gmail_id
\* fails and changes nothing, whoever the racing writers are.
C5_UniqueImmutableRecord ==
    [][/\ Len(processed') >= Len(processed)
       /\ SubSeq(processed', 1, Len(processed)) = processed
       /\ \A x \in Items : Cardinality(RowsOf(processed', x)) <= 1
       /\ ev'.outcome = "conflict" => processed' = processed]_vars

\* C5 happens: a writer's insert has just met the row another writer wrote
\* for the same e-mail, which is still the only one.
C5_Witness ==
    /\ ev.outcome = "conflict"
    /\ Cardinality(RowsOf(processed, ev.item)) = 1
    /\ Len(tasks[ev.item]) = 2

\* C6: on the automatic path, when the task was created and labelling or
\* unstarring the e-mail fails, the e-mail is recorded as processed all the
\* same.
C6_RecordedDespiteMarkFailure ==
    (ev.outcome = "markFailed" /\ ev.slot \in Slots)
        => isEmailProcessed(processed, ev.item)

\* C7: a cycle's step in which createTask fails writes no processed row,
\* leaves the e-mail's star and labels alone, creates no task, logs exactly
\* one PROCESSING_ERROR row naming the e-mail and nothing else, and leaves
\* the e-mail unknown to the ledger, so that the next cycle that fetches it
\* handles it again.
C7_CreateFailureLeavesItemRetryable ==
    [][ev'.outcome = "createFailed" =>
         /\ processed' = processed
         /\ pending' = pending
         /\ starred' = starred
         /\ marked' = marked
         /\ tasks' = tasks
         /\ \A k \in DOMAIN errors :
              errors'[k] = IF k = <<"PROCESSING_ERROR", ev'.item>>
                           THEN errors[k] + 1
                           ELSE errors[k]
         /\ ~isEmailProcessed(processed', ev'.item)
         /\ ~isPendingReview(pending', ev'.item)]_vars

\* C7 happens: createTask has failed for an e-mail for the second time, in
\* the cycle after the one of its first failure.
C7_Witness ==
    /\ ev.outcome = "createFailed"
    /\ cycles = 2
    /\ errors[<<"PROCESSING_ERROR", ev.item>>] = 2
    /\ tasks[ev.item] = <<>>
    /\ ev.item \notin marked
    /\ ev.item \in starred

\* C8: a finished run_once whose new e-mails were all extracted and of
\* which exactly one failed in its commit has returned (not thrown), counts
\* one error and all the other new e-mails as processed, and has recorded
\* every one of those others, before and after the failing one.
C8_OneFailureIsIsolated ==
    LET c == cyc[Service]
        batch == {x \in Items : c.hist[x] \notin {"none", "skipped"}}
        failed == {x \in Items : c.hist[x] \in CommitFailures}
    IN  (/\ c.pc \in {"returned", "threw"}
         /\ \A x \in batch : c.hist[x] \notin {"fatal", "fallback"}
         /\ Cardinality(failed) = 1)
        => /\ c.pc = "returned"
           /\ c.result.processed = Cardinality(batch) - 1
           /\ c.result.errors = 1
           /\ \A x \in batch \ failed :
                c.hist[x] = "recorded" /\ isEmailProcessed(processed, x)

\* C8 happens: of a batch of two the first e-mail failed in createTask and
\* the second was recorded.
C8_Witness ==
    /\ cyc[Service].pc = "returned"
    /\ cyc[Service].hist[1] = "createFailed"
    /\ cyc[Service].hist[2] = "recorded"
    /\ cyc[Service].result.processed = 1
    /\ cyc[Service].result.errors = 1

\* C9: once validateEnvironment has thrown inside the extraction of an
\* e-mail, the cycle is over: it has thrown, and handles no further e-mail.
C9_FatalAbortsCycle ==
    (\E x \in Items : cyc[Service].hist[x] = "fatal")
        => cyc[Service].pc = "threw"

\* C10: a cycle of the worker that starts with automation running while
\* ANTHROPIC_API_KEY is set logs exactly one ENV_ERROR and fetches nothing.
C10_CycleStartValidatesEnvironment ==
    [][\A p \in Workers :
         (/\ cycles' = cycles + 1
          /\ ev'.slot = p
          /\ ev'.outcome \in {"start", "triggered"}
          /\ running
          /\ env[WorkerProc])
         => /\ errors'[<<"ENV_ERROR", NoItem>>]
                 = errors[<<"ENV_ERROR", NoItem>>] + 1
            /\ cyc'[p].pc # "fetch"]_vars


\* C11: a step in which the extraction of an e-mail falls back leaves that
\* e-mail with exactly one pending_reviews row, of status pending, newly
\* inserted, creates no task, no processed row and no error_log row; and
\* no cycle ever calls the extractor for an e-mail that is pending review.
C11_FallbackRoutesToReview ==
    [][/\ ev'.outcome = "fallback" =>
            /\ Len(pending') = Len(pending) + 1
            /\ Cardinality(RowsOf(pending', ev'.item)) = 1
            /\ \A k \in RowsOf(pending', ev'.item) :
                 pending'[k].status = "pending"
            /\ RowsOf(processed', ev'.item) = {}
            /\ tasks' = tasks
            /\ processed' = processed
            /\ errors' = errors
       /\ \A p \in Slots :
            cyc'[p].pc = "extract" =>
                \A k \in RowsOf(pending', Item(cyc'[p])) :
                    pending'[k].status # "pending"]_vars

\* C11 happens: the second cycle fetched e-mail 1, which the first had sent
\* to review, passed over it without extraction, and handles e-mail 2.
C11_Witness ==
    /\ cycles = 2
    /\ cyc[Service].pc = "extract"
    /\ cyc[Service].i = 2
    /\ cyc[Service].hist[1] = "skipped"
    /\ Len(pending) = 1
    /\ pending[1] = [gmail_id |-> 1, status |-> "pending"]
    /\ tasks[1] = <<>>
    /\ processed = <<>>
    /\ \A t \in ErrorTypes : errors[<<t, 1>>] = 0

\* C12: the result a run_once returns counts in pendingReviews the e-mails
\* it sent to review and in processed the e-mails it wrote a processed row
\* for.
C12_ResultCounters ==
    LET c == cyc[Service]
    IN  c.pc = "returned" =>
          /\ c.result.pendingReviews =
                 Cardinality({x \in Items : c.hist[x] = "fallback"})
          /\ c.result.processed =
                 Cardinality({x \in Items : c.hist[x] = "recorded"})


\* Positions of a sequence that hold an id of a set.
PositionsIn(s, ids) == {k \in 1..Len(s) : s[k] \in ids}

\* C13: for every sequence of label ids normalizeLabels returns a sequence
\* with exactly one Duration id, at least one Context id and no id twice.
C13_NormalizeIsTaxonomyValid ==
    call.done =>
        /\ Cardinality(PositionsIn(call.result, DurationLabelIds)) = 1
        /\ PositionsIn(call.result, ContextLabelIds) # {}
        /\ \A a, b \in 1..Len(call.result) :
             a # b => call.result[a] # call.result[b]

\* C13 happens: an input with two Duration ids, one of them twice, and no
\* Context id has been normalized.
C13_Witness ==
    /\ call.done
    /\ call.labelIds = <<"2170911418", "2170911443", "2170911418">>
    /\ call.result = <<"2170911418", "2170910796">>

\* C14: every id normalizeLabels returns is the id of a label of the
\* registry.
C14_NormalizeReturnsRegistryIds ==
    call.done => \A k \in 1..Len(call.result) : call.result[k] \in LABEL_REGISTRY

\* C15: ids taken from the input keep the order of their first occurrences;
\* every registry id of the input that is no Duration stays; of the
\* Duration ids of the input only the first stays; a default that is added
\* comes after all ids of the input, the Duration default before the
\* Context default.
C15_NormalizePreservesOrder ==
    LET in == call.labelIds
        out == call.result
        FirstAt(id) == CHOOSE k \in 1..Len(in) :
                           in[k] = id /\ \A j \in 1..(k - 1) : in[j] # id
        kept == PositionsIn(out, SeqRange(in))
        added == (1..Len(out)) \ kept
        durIn == PositionsIn(in, DurationLabelIds)
        ctxIn == PositionsIn(in, ContextLabelIds)
    IN  call.done =>
          /\ \A a, b \in kept : a < b => FirstAt(out[a]) < FirstAt(out[b])
          /\ \A a \in kept, b \in added : a < b
          /\ \A k \in 1..Len(in) :
               in[k] \in LABEL_REGISTRY \ DurationLabelIds
                   => in[k] \in SeqRange(out)
          /\ durIn # {} =>
               LET first == CHOOSE k \in durIn : \A j \in durIn : k <= j
               IN  /\ in[first] \in SeqRange(out)
                   /\ \A k \in PositionsIn(out, DurationLabelIds) :
                        out[k] = in[first]
          /\ (durIn = {} /\ ctxIn # {}) =>
               /\ added = {Len(out)}
               /\ out[Len(out)] = "2170911443"
          /\ (durIn # {} /\ ctxIn = {}) =>
               /\ added = {Len(out)}
               /\ out[Len(out)] = "2170910796"
          /\ (durIn = {} /\ ctxIn = {}) =>
               /\ added = {Len(out) - 1, Len(out)}
               /\ out[Len(out) - 1] = "2170911443"
               /\ out[Len(out)] = "2170910796"
          /\ (durIn # {} /\ ctxIn # {}) => added = {}

\* C15 happens: the input of one Context id has been normalized to that id
\* followed by the default Duration id.
C15_Witness ==
    /\ call.done
    /\ call.labelIds = <<"2171144969">>
    /\ call.result = <<"2171144969", "2170911443">>


\* Review rows of e-mail x that are skipped.
SkippedReviews(x) == {k \in RowsOf(pending, x) : pending[k].status = "skipped"}

\* C16: no cycle creates a task for an e-mail whose review is skipped.
C16_SkippedIsTerminal ==
    (ev.slot \in Slots /\ ev.outcome = "created")
        => SkippedReviews(ev.item) = {}

\* C17: a review's status changes only when it is pending.
C17_StatusOnlyLeavesPending ==
    [][\A k \in 1..Len(pending) :
         pending'[k].status # pending[k].status
             => pending[k].status = "pending"]_vars

\* C18: while no processManualTask is in flight every completed review has
\* a processed row for its e-mail, and the e-mail a manual submit has just
\* recorded has a processed row of mode manual.
C18_CompletedIsRecorded ==
    /\ man.pc = "idle" =>
         \A k \in 1..Len(pending) :
             pending[k].status = "completed"
                 => RowsOf(processed, pending[k].gmail_id) # {}
    /\ (ev.slot = Manual /\ ev.outcome = "recorded") =>
         \E k \in RowsOf(processed, ev.item) :
             processed[k].processing_mode = "manual"

\* C18 happens: a manual submit whose labelEmail failed has completed the
\* review and recorded the e-mail, which is still starred and unlabelled.
C18_Witness ==
    /\ ev.slot = Manual
    /\ ev.outcome = "recorded"
    /\ man.pc = "idle"
    /\ ev.item \notin marked
    /\ ev.item \in starred
    /\ \E k \in RowsOf(pending, ev.item) : pending[k].status = "completed"
    /\ \E k \in RowsOf(processed, ev.item) :
         processed[k].processing_mode = "manual"

\* C19: a start step ends with automation running, a stop step with
\* automation stopped; a start when running and a stop when stopped change
\* nothing; neither changes the trigger flag, the last-run time, the ledger
\* or the error log.
C19_StartStopFrame ==
    [][/\ Start => running'
       /\ Stop => ~running'
       /\ (Start /\ running) => running' = running
       /\ (Stop /\ ~running) => running' = running
       /\ (Start \/ Stop) =>
            UNCHANGED <<trigger, lastRun, processed, pending, errors, tasks,
                        cycles, cyc>>]_vars

\* C19 happens: automation has been started, has recorded an e-mail and
\* has been stopped again, with a trigger requested and the last-run time
\* set.
C19_Witness ==
    /\ ~running
    /\ ev = NoEv
    /\ processed # <<>>
    /\ trigger
    /\ lastRun > 0

\* C20: a trigger request sets the flag whatever the running state; a poll
\* starts a cycle only when the flag is set, clears it, starts exactly one
\* invocation, and that invocation goes on to fetch only if automation is
\* running at that moment.
C20_TriggerIsOneShot ==
    [][/\ Trigger => (trigger' /\ running' = running /\ cycles' = cycles)
       /\ \A p \in Workers :
            TriggerPoll(p) =>
                /\ trigger
                /\ ~trigger'
                /\ cycles' = cycles + 1
                /\ cyc'[p].pc = IF running THEN "fetch" ELSE "idle"
                /\ \A q \in Slots \ {p} : cyc'[q] = cyc[q]
                /\ UNCHANGED <<processed, pending, errors, tasks>>]_vars

\* C20 happens: a trigger requested while automation was stopped has been
\* consumed by the poll: the flag is cleared and the cycle did no work.
C20_Witness ==
    /\ ev.outcome = "triggered"
    /\ ~trigger
    /\ ~running
    /\ lastRun = cycles
    /\ \A p \in Slots : cyc[p].pc = "idle"


\* The frame of a worker invocation after its synchronous start.
StartedFrame == IF running THEN [IdleFrame EXCEPT !.pc = "fetch"] ELSE IdleFrame

\* C21 as stated: the start-up cycle goes on to fetch whatever the running
\* flag says.
C21_StartupRunIgnoresRunning ==
    [][\A p \in Workers : StartupRun(p) => cyc'[p].pc = "fetch"]_vars

\* C21 amended: the start-up timer fires at most once; its cycle is started
\* whatever the running flag says and sets the last-run time, but goes on
\* to fetch only if automation is running and otherwise ends at once,
\* changing nothing else.
C21_StartupRunIsGated ==
    [][/\ startupDone => startupDone'
       /\ \A p \in Workers :
            StartupRun(p) =>
                /\ ~startupDone
                /\ startupDone'
                /\ cycles' = cycles + 1
                /\ lastRun' = cycles + 1
                /\ cyc'[p].pc = IF running THEN "fetch" ELSE "idle"
                /\ UNCHANGED <<processed, pending, errors, tasks, starred,
                               marked, running, trigger>>]_vars

\* C21 happens: the start-up cycle was the only cycle so far and found
\* automation stopped: nothing is in flight and nothing was fetched.
C21_Witness ==
    /\ startupDone
    /\ ~running
    /\ cycles = 1
    /\ lastRun = 1
    /\ ev.outcome = "start"
    /\ \A p \in Slots : cyc[p] = IdleFrame

\* C22: the cycle a cron tick starts and the cycle a consumed trigger
\* starts are the same invocation: the same last-run time and the same
\* frame, which records nothing of what started it, from an unchanged
\* ledger, error log and mailbox.
C22_WakeSourcesStartSameCycle ==
    [][\A p \in Workers :
         (CronTick(p) \/ TriggerPoll(p)) =>
             /\ lastRun' = cycles + 1
             /\ cycles' = cycles + 1
             /\ cyc'[p] = StartedFrame
             /\ \A q \in Slots \ {p} : cyc'[q] = cyc[q]
             /\ UNCHANGED <<processed, pending, errors, tasks, starred,
                            marked, running>>]_vars

\* C22 happens: a consumed trigger has started a cycle that is about to
\* fetch, as a cron tick does when automation is running.
C22_Witness ==
    /\ ev.outcome = "triggered"
    /\ running
    /\ ~trigger
    /\ cyc[ev.slot] = [IdleFrame EXCEPT !.pc = "fetch"]

\* C23: a fetch that signals GmailAuthError ends the cycle: no e-mail is
\* handled, nothing is logged, no task and no ledger row is created, and
\* the mailbox is left alone; run_once returns authRequired = true with
\* all counters zero.
C23_AuthRequiredEndsCycleQuietly ==
    [][ev'.outcome = "authRequired" =>
         /\ UNCHANGED <<errors, tasks, processed, pending, starred, marked>>
         /\ cyc'[ev'.slot].pc \in {"idle", "returned"}
         /\ cyc'[ev'.slot].emails = <<>>
         /\ ev'.slot = Service =>
              /\ cyc'[Service].pc = "returned"
              /\ cyc'[Service].result =
                     [processed |-> 0, errors |-> 0, pendingReviews |-> 0,
                      authRequired |-> TRUE, authUrl |-> AuthUrl]
              /\ \A x \in Items : cyc'[Service].hist[x] = "none"]_vars

\* C23 happens: a run_once has returned authRequired while both e-mails
\* are starred and unknown to the ledger.
C23_Witness ==
    /\ ev = Ev(Service, NoItem, "authRequired")
    /\ cyc[Service].pc = "returned"
    /\ cyc[Service].result.authRequired
    /\ cyc[Service].result.authUrl = AuthUrl
    /\ starred = Items
    /\ processed = <<>>
    /\ pending = <<>>

\* C24: a fetch of the worker that throws another error ends the cycle
\* with exactly one CYCLE_ERROR row that names no e-mail, creates no task
\* and no ledger row, and leaves the invocation slot free and the timers
\* as they were, so that the next wake starts a cycle.
C24_CycleErrorIsLoggedOnce ==
    [][(ev'.outcome = "fetchFailed" /\ ev'.slot \in Workers) =>
         /\ \A k \in DOMAIN errors :
              errors'[k] = IF k = <<"CYCLE_ERROR", NoItem>>
                           THEN errors[k] + 1
                           ELSE errors[k]
         /\ UNCHANGED <<tasks, processed, pending, starred, marked, running,
                        trigger, startupDone>>
         /\ cyc'[ev'.slot] = IdleFrame]_vars

\* C24 happens: after a cycle whose fetch threw, the next cron tick has
\* started a cycle that is about to fetch.
C24_Witness ==
    /\ errors[<<"CYCLE_ERROR", NoItem>>] = 1
    /\ cycles = 2
    /\ ev = Ev("w1", NoItem, "start")
    /\ cyc["w1"].pc = "fetch"
    /\ cyc["w2"].pc = "idle"
    /\ processed = <<>>
    /\ pending = <<>>

\* The ways of the CLI call that are no well-formed answer.
CliFailures == CliBehaviours \ {"ok"}

\* C25: with the environment valid, extraction returns success = false
\* with fallbackRequired = true, and does not throw, when the CLI is
\* unauthenticated, is killed by the timeout, exits with an error, answers
\* with an error, or answers without parseable JSON or without the task or
\* labels field; a success never carries the fallback flag.
C25_ExtractFailureIsFallback ==
    (call.done /\ ~call.apiKey) =>
        /\ ~call.threw
        /\ call.cli \in CliFailures =>
             (~call.result.success /\ call.result.fallbackRequired)
        /\ call.result.success => ~call.result.fallbackRequired

\* C25 happens: an extraction whose CLI call was killed by the timeout has
\* returned the fallback result.
C25_Witness ==
    /\ call.done
    /\ ~call.apiKey
    /\ call.cli = "timeout"
    /\ ~call.threw
    /\ call.result.fallbackRequired

\* C26: a well-formed answer gives a success, not routed to fallback,
\* whose labels are not empty and are all ids of the registry; when no id
\* of the answer is in the registry the labels are the default pair.
C26_SuccessLabelsAreRegistryIds ==
    (call.done /\ ~call.apiKey /\ call.cli = "ok") =>
        /\ call.result.success
        /\ ~call.result.fallbackRequired
        /\ call.result.labels # <<>>
        /\ \A k \in 1..Len(call.result.labels) :
             call.result.labels[k] \in LABEL_REGISTRY
        /\ SeqRange(call.labelIds) \cap LABEL_REGISTRY = {} =>
             call.result.labels = <<"2170911443", "2170910796">>

\* C27: addPendingReview for an e-mail that already has a pending_reviews
\* row, whatever the row's status, raises no error and leaves the table as
\* it is; no step, also of overlapping cycles, leaves two pending_reviews
\* rows for one e-mail.
C27_AddPendingReviewIsInsertIfAbsent ==
    [][/\ \A x \in Items : Cardinality(RowsOf(pending', x)) <= 1
       /\ (ev'.outcome = "fallback" /\ RowsOf(pending, ev'.item) # {}) =>
            /\ pending' = pending
            /\ errors' = errors
            /\ cyc'[ev'.slot].pc # "threw"]_vars

\* C27 happens: an extraction has fallen back for an e-mail whose
\* pending_reviews row was skipped before, and the row is still skipped.
C27_Witness ==
    /\ ev.outcome = "fallback"
    /\ \E k \in 1..Len(pending) :
         /\ pending[k].gmail_id = ev.item
         /\ pending[k].status = "skipped"

\* The display string the registry gives to one of its ids.
DisplayString(id) ==
    LET l == CHOOSE l \in LabelInfos : l.id = id
    IN  l.name \o " " \o l.emoji

\* C28: for ids that normalizeLabels returned, createTask submits as many
\* strings as there are ids, the k-th being the name and emoji the
\* registry holds for the k-th id; a later call of the same service with
\* the same ids submits the same strings as the first.
C28_SubmittedLabelsAreDisplayStrings ==
    call.calls >= 1 =>
        /\ call.names = call.first
        /\ call.normalized =>
             /\ Len(call.names) = Len(call.labelIds)
             /\ \A k \in 1..Len(call.labelIds) :
                  /\ call.labelIds[k] \in LABEL_REGISTRY
                  /\ call.names[k] = DisplayString(call.labelIds[k])

\* C29: on the service's, the worker's and the manual path alike, the
\* description is six lines joined by newline: "From: " and the sender,
\* "Subject: " and the subject, an empty line, the notes or nothing when
\* there are none, an empty line, "Original email: " and the link.
C29_DescriptionIsSixLines ==
    call.done =>
        call.description =
            "From: " \o call.email.sender \o "\n"
            \o "Subject: " \o call.email.subject \o "\n"
            \o "\n"
            \o (IF call.notes \in {<<>>, <<"">>} THEN "" ELSE call.notes[1])
            \o "\n"
            \o "\n"
            \o "Original email: https://mail.google.com/mail/u/0/#inbox/"
            \o call.email.threadId

\* C29 happens: the manual path has composed the description of a review
\* submitted without notes.
C29_Witness ==
    /\ call.done
    /\ call.path = "manual"
    /\ call.notes = <<>>
    /\ call.email.sender = "Unknown"
    /\ call.description # ""

\* The positions of a frame at which it is handling an e-mail.
ItemSteps == {"extract", "create", "label", "unstar"}

\* Outcomes after which the handling of an e-mail is over.
TerminalOutcomes ==
    {"fallback", "fatal", "createFailed", "markFailed", "conflict",
     "recorded"}

\* E-mail x has a processed_emails row or a pending review after the step.
KnownAfter(x) ==
    \/ \E k \in 1..Len(processed') : processed'[k].gmail_id = x
    \/ \E k \in 1..Len(pending') :
         pending'[k].gmail_id = x /\ pending'[k].status = "pending"

\* C30: a run_once handles the fetched e-mails one at a time in the order
\* of the fetch: every call to the extractor, tracker or mailbox is for the
\* e-mail at the frame's position; the position moves on, and only
\* forward, with the step that falls back, records or logs the error of
\* that e-mail; the e-mails it passes over are processed or pending and
\* get no call, the e-mail it stops at is neither, and the loop ends only
\* when no fetched e-mail is left.
C30_ItemsAreHandledInTurn ==
    [][LET c == cyc[Service]
           d == cyc'[Service]
           inItem == c.pc \in ItemSteps
           from == IF inItem THEN c.i ELSE 0
       IN  /\ (ev'.slot = Service /\ ev'.item # NoItem) =>
                (inItem /\ ev'.item = Item(c))
           /\ (inItem /\ d # c) =>
                \/ /\ ev' \in {Ev(Service, Item(c), o) :
                                 o \in {"extracted", "created", "labelled"}}
                   /\ d.pc \in ItemSteps
                   /\ d.i = c.i
                   /\ d.emails = c.emails
                \/ /\ ev' \in {Ev(Service, Item(c), o) :
                                 o \in TerminalOutcomes}
                   /\ \/ d.pc = "returned"
                      \/ /\ d.pc = "extract"
                         /\ d.i > c.i
                         /\ d.emails = c.emails
           /\ (d.pc = "extract" /\ (~inItem \/ d.i # c.i)) =>
                /\ \A k \in (from + 1)..(d.i - 1) :
                     /\ KnownAfter(d.emails[k])
                     /\ d.hist[d.emails[k]] = "skipped"
                /\ ~KnownAfter(Item(d))
                /\ \A a, b \in 1..Len(d.emails) :
                     a < b => d.emails[a] < d.emails[b]
           /\ (d.pc = "returned" /\ c.pc \in ItemSteps \cup {"fetch"}) =>
                \A x \in Items : d.hist[x] # "queued"]_vars

\* C30 happens: a run_once has passed over the first fetched e-mail, which
\* was known, and is about to extract the second.
C30_Witness ==
    /\ cyc[Service].pc = "extract"
    /\ cyc[Service].emails = <<1, 2>>
    /\ cyc[Service].i = 2
    /\ cyc[Service].hist[1] = "skipped"

\* C31: a cron tick that finds automation stopped sets the last-run time
\* and nothing else: its invocation is over at once, without a fetch, and
\* the ledger, the error log, the tracker and the mailbox are as before.
C31_StoppedTickDoesNoWork ==
    [][\A p \in Workers :
         (CronTick(p) /\ ~running) =>
             /\ lastRun' = cycles + 1
             /\ cyc'[p] = IdleFrame
             /\ \A q \in Slots \ {p} : cyc'[q] = cyc[q]
             /\ UNCHANGED <<processed, pending, errors, tasks, starred,
                            marked, running, trigger, startupDone, env>>]_vars

\* C31 happens: the first cycle was a cron tick that found automation
\* stopped; the start-up run has not happened yet.
C31_Witness ==
    /\ ev.outcome = "start"
    /\ ~running
    /\ ~startupDone
    /\ cycles = 1
    /\ lastRun = 1
    /\ \A p \in Slots : cyc[p] = IdleFrame

\* C32: stopping automation leaves every invocation where it is, and a
\* worker's cycle that is handling an e-mail goes on whatever the running
\* flag says: it can always take its next step, and it leaves an e-mail
\* only for the next fetched e-mail the ledger does not know, ending only
\* when there is none.
C32_NoMidCycleCancellation ==
    /\ [](\A p \in Workers :
            cyc[p].pc \in ItemSteps =>
                ENABLED (W_Extract(p) \/ W_Create(p) \/ W_Label(p)
                         \/ W_Unstar(p)))
    /\ [][/\ running' # running => cyc' = cyc
          /\ \A p \in Workers :
               LET c == cyc[p]
                   d == cyc'[p]
               IN  (c.pc \in ItemSteps /\ d # c) =>
                     \/ /\ d.pc \in ItemSteps
                        /\ d.i = c.i
                        /\ d.emails = c.emails
                     \/ /\ ev' \in {Ev(p, Item(c), o) : o \in TerminalOutcomes}
                        /\ \/ /\ d.pc = "extract"
                              /\ d.i > c.i
                              /\ d.emails = c.emails
                              /\ ~KnownAfter(Item(d))
                              /\ \A k \in (c.i + 1)..(d.i - 1) :
                                   KnownAfter(c.emails[k])
                           \/ /\ d.pc = "idle"
                              /\ \A k \in (c.i + 1)..Len(c.emails) :
                                   KnownAfter(c.emails[k])]_vars

\* C32 happens: with automation stopped, a cycle has finished its first
\* e-mail and gone on to extract the second.
C32_Witness ==
    /\ ~running
    /\ ev \in {Ev("w1", 1, o) : o \in TerminalOutcomes}
    /\ cyc["w1"].pc = "extract"
    /\ cyc["w1"].emails = <<1, 2>>
    /\ cyc["w1"].i = 2

\* C33: the first initialization of the store leaves running false; a
\* later initialization, at any start of a process, leaves the stored
\* value as it is; the 'running' row is never removed; and a step that
\* changes running is a start or a stop, never a cycle, a trigger, a
\* failure of the fetch, of the authentication or of the environment.
C33_RunningChangesOnlyByStartStop ==
    [][/\ (~runningRow /\ runningRow') => ~running'
       /\ runningRow =>
            /\ runningRow'
            /\ \A q \in Procs : initializeDatabase(q) => running' = running
       /\ running' # running => (Start \/ Stop)]_vars

\* C33 happens: a process has started and initialized the store again
\* while automation was running, and it is still running.
C33_Witness ==
    /\ ev.outcome = "initialized"
    /\ running
    /\ runningRow
    /\ cycles > 0

\* C34: the step that starts a cycle, of the worker or of run_once, sets
\* the last-run time to the time of that start whatever the running flag
\* and the environment are, and no other step changes it; so after every
\* step, also one that ended a cycle on an environment, authentication or
\* fetch failure, GET /api/status answers with the running flag, the time
\* of the last started cycle and the number of pending reviews whose
\* status is pending.
C34_LastRunIsRecordedFirst ==
    [][/\ cycles' # cycles => (cycles' = cycles + 1 /\ lastRun' = cycles')
       /\ cycles' = cycles => lastRun' = lastRun
       /\ GetStatus' =
              [running |-> running',
               lastRun |-> cycles',
               pendingReviewCount |->
                   Cardinality({k \in 1..Len(pending') :
                                  pending'[k].status = "pending"})]]_vars

\* C34 happens: the second cycle was a run_once that ended on the
\* environment check, and the status shows its time.
C34_Witness ==
    /\ ev = Ev(Service, NoItem, "start")
    /\ cyc[Service].pc = "threw"
    /\ errors[<<"ENV_ERROR", NoItem>>] = 1
    /\ cycles = 2
    /\ GetStatus.lastRun = 2
    /\ GetStatus.pendingReviewCount = 1

\* The processed_emails row r names a task the tracker holds for r's
\* e-mail, created with r's labels.
RefersToTask(r, tracker) ==
    /\ r.todoist_task_id # NoTask
    /\ r.todoist_task_id[1] = r.gmail_id
    /\ r.todoist_task_id[2] \in 1..Len(tracker[r.gmail_id])
    /\ tracker[r.gmail_id][r.todoist_task_id[2]] = r.labels

\* C35: every processed_emails row names a task the tracker created for
\* the row's e-mail, with the id the tracker returned, and holds the
\* normalized labels that task was created with; the task is there before
\* the step that writes the row.
C35_RecordRefersToCreatedTask ==
    /\ [](\A k \in 1..Len(processed) : RefersToTask(processed[k], tasks))
    /\ [][\A k \in 1..Len(processed') :
            k > Len(processed) => RefersToTask(processed'[k], tasks)]_vars

\* C35 happens: one e-mail was recorded by run_once and the other by a
\* submitted review, each with a task of its own.
C35_Witness ==
    /\ Len(processed) = 2
    /\ {processed[k].processing_mode : k \in 1..2} = {"auto", "manual"}
    /\ \A x \in Items : Len(tasks[x]) = 1

\* C36: a submit makes its calls only for a review that exists and whose
\* status is pending: a submit that names no review, or a review that is
\* completed or skipped, returns without a call and changes nothing, so
\* that reviews never make a second task for an e-mail.
C36_SubmitNeedsPendingReview ==
    [][\A id \in ReviewIds :
         (M_Submit(id)
              /\ ~(id \in 1..Len(pending) /\ pending[id].status = "pending"))
         => /\ man' = IdleManual
            /\ UNCHANGED <<processed, pending, errors, tasks, starred,
                           marked>>]_vars

\* C37: when createTask fails in processManualTask, the review and the
\* ledger are as before (a pending review stays pending, no processed
\* row), the tracker and the mailbox are untouched, exactly one
\* MANUAL_PROCESSING_ERROR row with the e-mail's id is added, and the
\* operation is over, so that the review can be submitted again.
C37_ManualCreateFailureIsRetryable ==
    [][(ev'.slot = Manual /\ ev'.outcome = "createFailed") =>
         /\ ev'.item = man.gmail_id
         /\ UNCHANGED <<pending, processed, tasks, starred, marked>>
         /\ \A k \in DOMAIN errors :
              errors'[k] =
                  IF k = <<"MANUAL_PROCESSING_ERROR", man.gmail_id>>
                  THEN errors[k] + 1
                  ELSE errors[k]
         /\ man' = IdleManual]_vars

\* C37 happens: the first submit of a review failed at createTask and the
\* second submit of the same, still pending, review has created the task.
C37_Witness ==
    /\ ev.slot = Manual
    /\ ev.outcome = "created"
    /\ manuals = 2
    /\ errors[<<"MANUAL_PROCESSING_ERROR", ev.item>>] = 1
    /\ Len(tasks[ev.item]) = 1
    /\ pending[man.id].gmail_id = ev.item
    /\ pending[man.id].status = "pending"

\* C39: normalizeLabels applied to what normalizeLabels returned returns
\* it unchanged, for every sequence of ids.
C39_NormalizeIsIdempotent ==
    "again" \in DOMAIN call => call.again = call.result

\* C39 happens: a lone theme was given its default duration and context,
\* and normalizing the three labels again has returned.
C39_Witness ==
    /\ "again" \in DOMAIN call
    /\ call.labelIds = <<"2170793536">>
    /\ call.result = <<"2170793536", "2170911443", "2170910796">>

\* C38: with the timers firing for ever, automation started, a valid
\* environment and calls that succeed again and again, every e-mail that
\* stays starred eventually has a processed_emails or a pending_reviews
\* row, also when the mailbox holds more starred e-mails than one fetch
\* returns.
C38_EveryStarredItemIsEventuallyKnown ==
    \A x \in Items :
        <>(\/ x \notin starred
           \/ RowsOf(processed, x) # {}
           \/ RowsOf(pending, x) # {})

====
